---- MODULE Spec2Model ----
(***************************************************************************)
(* Model of the NDT reader probing tools.                                  *)
(*                                                                         *)
(*   DeviceCommunication  (src/device_communication.py)   the transport    *)
(*   DeviceTesting        (src/testing scripts/device_testing.py)          *)
(*   main, option 8       (src/testing scripts/main.py)   indexed recall   *)
(*                                                                         *)
(* Python strings are sequences of one-character strings, so that          *)
(* endswith, strip, replace and the {i:03d} format are computed and not    *)
(* assumed.  Python's None is the one-element sequence NONE, which is no   *)
(* character string.                                                       *)
(***************************************************************************)
EXTENDS Integers, Sequences, FiniteSets, TLC

\* ------------------------------------------------------------------ bounds

\* Exchanges the tester may issue in one session.
MaxExchanges == 3
\* Entries of bulk_commands a run of test_bulk_data_commands goes through.
MaxBulk == 2
\* Entries of status_commands a run of analyze_current_state goes through.
MaxStatus == 1

\* Largest record count the device reports or the operator types.
MaxCount == 2

\* ----------------------------------------------------------------- strings

NONE == <<"<None>">>

TIMEOUT == <<"T", "I", "M", "E", "O", "U", "T">>
ER_UNKNOWN_COMMAND ==
    <<"E", "R", ":", "U", "N", "K", "N", "O", "W", "N", " ",
      "C", "O", "M", "M", "A", "N", "D">>
OK == <<"O", "K">>
SENT == <<"S", "E", "N", "T">>

\* Python truthiness of a command result: None and "" are false.
Truthy(response) == response # NONE /\ response # <<>>

\* str.endswith('?')
EndsWithQuery(command) == Len(command) > 0 /\ command[Len(command)] = "?"

IsSpace(ch) == ch \in {" ", "\n", "\r", "\t"}

RECURSIVE LStrip(_)
LStrip(s) == IF s # <<>> /\ IsSpace(Head(s)) THEN LStrip(Tail(s)) ELSE s

RECURSIVE RStrip(_)
RStrip(s) ==
    IF s # <<>> /\ IsSpace(s[Len(s)]) THEN RStrip(SubSeq(s, 1, Len(s) - 1)) ELSE s

\* str.strip()
Strip(s) == RStrip(LStrip(s))

\* ---------------------------------------------------------------- catalogs

bulk_commands ==
    << <<"A", "L", "L">>,
       <<"A", "L", "L", "?">>,
       <<"D", "U", "M", "P">>,
       <<"D", "U", "M", "P", "?">>,
       <<"E", "X", "P", "O", "R", "T">>,
       <<"E", "X", "P", "O", "R", "T", "?">>,
       <<"T", "A", "B", "L", "E">>,
       <<"T", "A", "B", "L", "E", "?">>,
       <<"D", "A", "T", "A">>,
       <<"D", "A", "T", "A", "?">>,
       <<"M", "E", "A", "S", "U", "R", "E", "M", "E", "N", "T", "S">>,
       <<"M", "E", "A", "S", "U", "R", "E", "M", "E", "N", "T", "S", "?">>,
       <<"F", "1">>,
       <<"F", "1", "?">>,
       <<"F", "2">>,
       <<"F", "2", "?">>,
       <<"F", "3">>,
       <<"F", "3", "?">>,
       <<"B", "U", "F", "F", "E", "R">>,
       <<"B", "U", "F", "F", "E", "R", "?">> >>

status_commands ==
    << <<"V", "E", "R", "?">>,
       <<"I", "D", "?">>,
       <<"U", "N", "I", "T", "S", "?">>,
       <<"R", "A", "N", "G", "E", "?">>,
       <<"V", "E", "L", "O", "C", "I", "T", "Y", "?">>,
       <<"Z", "E", "R", "O", "?">>,
       <<"M", "O", "D", "E", "?">>,
       <<"S", "T", "A", "T", "U", "S", "?">>,
       <<"M", "E", "M", "O", "R", "Y", "?">> >>

\* main, option 8: fetch_commands
fetch_commands ==
    << <<"D", "A", "T", "A", "?">>,
       <<"M", "E", "A", "S", "?">>,
       <<"D", "U", "M", "P", "?">>,
       <<"T", "A", "B", "L", "E", "?">>,
       <<"M", "E", "A", "S", "U", "R", "E", "M", "E", "N", "T", "S", "?">>,
       <<"T", "H", "I", "C", "K", "N", "E", "S", "S", "?">>,
       <<"S", "E", "N", "D", "?">>,
       <<"F", "E", "T", "C", "H", "?">>,
       <<"G", "E", "T", "?">> >>

\* main, option 8: select_formats, each the text in front of {i:03d}.
select_formats ==
    << <<"I", "D", ":">>,
       <<"R", "E", "C", "A", "L", "L", ":">>,
       <<>>,
       <<"F", "I", "L", "E", ":">> >>

MEMORY_QUERY == <<"M", "E", "M", "O", "R", "Y", "?">>

DigitChars == <<"0", "1", "2", "3", "4", "5", "6", "7", "8", "9">>

IsDigit(ch) == \E d \in 1..10 : DigitChars[d] = ch

DigitVal(ch) == (CHOOSE d \in 1..10 : DigitChars[d] = ch) - 1

\* str(n) for n >= 0
RECURSIVE Digits(_)
Digits(n) ==
    IF n < 10 THEN <<DigitChars[n + 1]>>
    ELSE Digits(n \div 10) \o <<DigitChars[(n % 10) + 1]>>

\* f"{i:03d}" for i >= 0
Pad3(n) ==
    LET d == Digits(n) IN
    IF Len(d) >= 3 THEN d ELSE [k \in 1..(3 - Len(d)) |-> "0"] \o d

\* sel_fmt.format(i=i)
FormatSelect(sel_fmt, n) == sel_fmt \o Pad3(n)

\* cmd.replace('?', '')
RemoveQuery(cmd) == SelectSeq(cmd, LAMBDA ch : ch # "?")

\* f"{fetch_cmd_base}:{i:03d}?"
FormatQuery(fetch_cmd_base, n) == fetch_cmd_base \o <<":">> \o Pad3(n) \o <<"?">>

\* sub in s
Contains(sub, s) ==
    \E k \in 0..(Len(s) - Len(sub)) : SubSeq(s, k + 1, k + Len(sub)) = sub

\* str.split(): the maximal runs of non-whitespace characters.
RECURSIVE SplitFrom(_, _, _)
SplitFrom(s, cur, acc) ==
    IF s = <<>> THEN (IF cur = <<>> THEN acc ELSE Append(acc, cur))
    ELSE IF IsSpace(Head(s))
    THEN SplitFrom(Tail(s), <<>>, IF cur = <<>> THEN acc ELSE Append(acc, cur))
    ELSE SplitFrom(Tail(s), Append(cur, Head(s)), acc)

Split(s) == SplitFrom(s, <<>>, <<>>)

RECURSIVE DigitsValue(_)
DigitsValue(ds) ==
    IF ds = <<>> THEN 0
    ELSE 10 * DigitsValue(SubSeq(ds, 1, Len(ds) - 1)) + DigitVal(ds[Len(ds)])

\* int(tok) for a token without whitespace: an optional sign and decimal
\* digits; anything else raises ValueError (ok = FALSE).
ParseInt(tok) ==
    LET signed == tok # <<>> /\ Head(tok) \in {"+", "-"}
        ds == IF signed THEN Tail(tok) ELSE tok
    IN  IF ds # <<>> /\ \A k \in DOMAIN ds : IsDigit(ds[k])
        THEN [ok |-> TRUE,
              val |-> IF signed /\ Head(tok) = "-"
                      THEN 0 - DigitsValue(ds) ELSE DigitsValue(ds)]
        ELSE [ok |-> FALSE, val |-> 0]

Min(a, b) == IF a < b THEN a ELSE b

\* The part of each list a run goes through.
BulkLen == Min(MaxBulk, Len(bulk_commands))
StatusLen == Min(MaxStatus, Len(status_commands))

\* Commands handed to test_single_command (typed by the operator or taken
\* from a list): one that the bulk strategy also sends and one that the
\* state analysis also sends.
SingleCommands == {bulk_commands[1], status_commands[1]}

\* ------------------------------------------------------------------ device

\* What the device sends back, before the transport strips it.
Reading1 == <<"3", ".", "5", "2", "\r", "\n">>
Reading2 == <<"3", ".", "6", "0">>
Blank == <<"\r", "\n">>
\* A listing of more than 50 characters.
Listing == [k \in 1..51 |-> "7"]

DeviceTexts == {ER_UNKNOWN_COMMAND, Reading1, Reading2, Blank, Listing}

\* What one exchange meets: the device answers, the link times out, or the
\* link fails some other way.
DeviceOutcomes ==
    [kind : {"reply"}, text : DeviceTexts]
        \cup {[kind |-> "timeout", text |-> <<>>], [kind |-> "fault", text |-> <<>>]}

MemoryPrefix == <<"4", "0", "9", "6", " ", "5", "1", "2", " ">>

\* Answers to MEMORY?: a well-formed one per count, one with two fields
\* only, one whose third field is no number, and the unknown-command error.
MemoryTexts ==
    {MemoryPrefix \o Digits(n) \o <<"\r", "\n">> : n \in 0..MaxCount}
        \cup {<<"4", "0", "9", "6", " ", "5", "1", "2">>,
              MemoryPrefix \o <<"E", "R", "R">>,
              <<"E", "R", "R">>,
              ER_UNKNOWN_COMMAND}

MemoryOutcomes ==
    [kind : {"reply"}, text : MemoryTexts]
        \cup {[kind |-> "timeout", text |-> <<>>], [kind |-> "fault", text |-> <<>>]}

\* What the operator types at the manual count prompt.
InputTexts ==
    {Digits(n) : n \in 0..MaxCount}
        \cup {<<>>, <<" ", "1", " ">>, <<"a", "b", "c">>}

\* --------------------------------------------------------------- variables

VARIABLES
    visa_resource,      \* DeviceCommunication.visa_resource: TRUE when open
    device,             \* DeviceCommunication.device: "None" or its endpoints
    visa_timeout,       \* visa_resource.timeout in ms; 0 without a VISA link
    response_buffer,    \* DeviceTesting.response_buffer
    working_commands,   \* DeviceTesting.working_commands
    timeout_commands,   \* DeviceTesting.timeout_commands
    pc,                 \* where the tester's caller stands
    pos,                \* index of the running loop
    ret,                \* what test_single_command returned last
    attempts,           \* every exchange the tester asked for, in order
    rpc,                \* where option 8 of main stands
    file_count,         \* main, option 8: file_count
    i,                  \* main, option 8: the index being recalled
    sel,                \* position in select_formats
    fet,                \* position in fetch_commands
    found_data,         \* main, option 8: found_data
    sel_sent,           \* select exchanges sent for index i
    fetch_sent,         \* fetch exchanges sent for index i
    query_sent,         \* one-step exchanges sent for index i
    successes,          \* SUCCESS lines printed for index i
    last,               \* the last exchange option 8 made
    count_source,       \* who gave file_count: "device", "operator", "none"
    all_timed_out,      \* every two-step exchange for index i timed out
    fetch_data,         \* a fetch of the two-step search for index i gave data
    done,               \* per finished index of this recall: found_data
    cat,                \* probe_all_commands: position in the catalog
    total_commands,     \* probe_all_commands: total_commands
    successful_commands,\* probe_all_commands: successful_commands
    category_success,   \* probe_all_commands: category_success
    xpc,                \* where the extractor's caller stands
    xpos,               \* _try_bulk_export: position in bulk_commands
    x_file_count,       \* extract_all_measurements: file_count
    x_count_from,       \* where that count came from
    x_raised,           \* the last extract_all_measurements call raised
    x_tried,            \* the strategies that call ran, in order
    x_results,          \* measurements the last strategy call returned
    x_i,                \* _try_indexed_recall: the index being recalled
    x_n,                \* _try_indexed_recall: its file_count argument
    x_last,             \* the last exchange the extractor made
    in_flight,          \* commands handed to the link whose call has not returned
    written,            \* every command handed to the link, in order
    phase,              \* where main stands: "basic", "menu" or "ended"
    basic_sent,         \* basic connectivity test: commands probed so far
    basic_success,      \* basic connectivity test: basic_success
    disconnects,        \* calls of comm.disconnect() made
    report_written,     \* save_results has written the report
    ended_by,           \* which way main ended
    running,            \* SERIAL_READ: self.running
    reader,             \* SERIAL_READ: where the thread of read_serial stands
    reads,              \* lines the reader thread has read
    value,              \* the local variable value of read_serial
    events,             \* callbacks handed to Clock.schedule_once, not yet run
    ui,                 \* the UI thread: "ok", or "raised" after a callback raised
    shown,              \* values passed to update_thickness, in order
    readings,           \* values parsed from the lines that scheduled an update
    last_value,         \* self.last_value
    data                \* self.data: the recorded readings

comm == <<visa_resource, device, visa_timeout>>

svars ==
    <<response_buffer, working_commands, timeout_commands, pc, pos, ret, attempts>>

rvars ==
    <<rpc, file_count, i, sel, fet, found_data, sel_sent, fetch_sent,
      query_sent, successes, last, count_source, all_timed_out, fetch_data,
      done>>

pvars == <<cat, total_commands, successful_commands, category_success>>

xvars ==
    <<xpc, xpos, x_file_count, x_count_from, x_raised, x_tried, x_results,
      x_i, x_n, x_last>>

lvars == <<in_flight, written>>

mvars ==
    <<phase, basic_sent, basic_success, disconnects, report_written, ended_by>>

serial ==
    <<running, reader, reads, value, events, ui, shown, readings, last_value,
      data>>

vars == <<comm, svars, rvars, pvars, xvars, lvars, mvars, serial>>

\* --------------------------------------------------------------- transport

\* _send_usbtmc_command querying whatever the command ends in.
send_usbtmc_command_always_query(command, timeout_ms, out) ==
    IF out.kind = "timeout" THEN TIMEOUT
    ELSE IF out.kind = "fault" THEN NONE
    ELSE Strip(out.text)

\* DeviceCommunication._send_usbtmc_command
send_usbtmc_command(command, timeout_ms, out) ==
    IF out.kind = "timeout" THEN TIMEOUT
    ELSE IF out.kind = "fault" THEN NONE
    ELSE IF EndsWithQuery(command) THEN Strip(out.text)
    ELSE OK

\* DeviceCommunication._send_raw_usb_command
send_raw_usb_command(command, timeout_ms, out) ==
    IF device = "no_bulk_out" THEN NONE
    ELSE IF out.kind = "timeout" THEN TIMEOUT
    ELSE IF out.kind = "fault" THEN NONE
    ELSE IF device = "bulk_in_out"
         THEN (IF Strip(out.text) # <<>> THEN Strip(out.text) ELSE NONE)
    ELSE SENT

\* DeviceCommunication.send_command_with_timeout
send_command_with_timeout(command, timeout_ms, out) ==
    IF visa_resource THEN send_usbtmc_command(command, timeout_ms, out)
    ELSE IF device # "None" THEN send_raw_usb_command(command, timeout_ms, out)
    ELSE NONE

\* DeviceCommunication.send_command
send_command(command, out) == send_command_with_timeout(command, 2000, out)

\* The link's timeout after an exchange whose restore sits at the end of
\* the try block: a timeout or a fault leaves the exchange's budget behind.
timeout_after_restore_in_try(timeout_ms, out) ==
    IF visa_resource /\ out.kind # "reply" THEN timeout_ms ELSE visa_timeout

\* _send_usbtmc_command, lines 202, 203 and 217-220: the timeout is saved,
\* set to timeout_ms for the exchange, and restored in the finally block
\* whatever the exchange met.  The raw link has no such setting.
timeout_after(timeout_ms, out) ==
    IF visa_resource
    THEN LET original_timeout == visa_timeout IN original_timeout
    ELSE visa_timeout

\* What one exchange leaves of the communication object.
Transport(timeout_ms, out) ==
    /\ visa_timeout' = timeout_after(timeout_ms, out)
    /\ UNCHANGED <<visa_resource, device>>

\* The outcome kinds of an exchange result.
IsData(response) ==
    /\ Truthy(response)
    /\ response # TIMEOUT
    /\ response \notin {ER_UNKNOWN_COMMAND, OK, SENT}

\* ------------------------------------------------------------------ tester

\* What an exchange met on the link: out.kind, or "nothing" when the
\* object has no link or no bulk OUT endpoint to write to.
Met(out) ==
    IF ~visa_resource /\ device \in {"None", "no_bulk_out"} THEN "nothing"
    ELSE out.kind

Attempt(op, command, timeout_ms, response, met) ==
    [op |-> op, cmd |-> command, timeout |-> timeout_ms, resp |-> response,
     met |-> met]

\* log_response with its filter cut down to the unknown-command string.
log_response_unknown_only(command, response) ==
    /\ response_buffer' = Append(response_buffer, <<command, response>>)
    /\ working_commands' =
           IF Truthy(response) /\ response \notin {ER_UNKNOWN_COMMAND}
           THEN Append(working_commands, <<command, response>>)
           ELSE working_commands

\* log_response with the history append moved under the filter.
log_response_filtered_history(command, response) ==
    IF Truthy(response) /\ response \notin {ER_UNKNOWN_COMMAND, OK, SENT}
    THEN /\ response_buffer' = Append(response_buffer, <<command, response>>)
         /\ working_commands' = Append(working_commands, <<command, response>>)
    ELSE UNCHANGED <<response_buffer, working_commands>>

\* log_response keeping one record per (command, response) pair.
log_response_once(command, response) ==
    IF \E k \in DOMAIN response_buffer : response_buffer[k] = <<command, response>>
    THEN UNCHANGED <<response_buffer, working_commands>>
    ELSE /\ response_buffer' = Append(response_buffer, <<command, response>>)
         /\ working_commands' =
                IF Truthy(response) /\ response \notin {ER_UNKNOWN_COMMAND, OK, SENT}
                THEN Append(working_commands, <<command, response>>)
                ELSE working_commands

\* log_response keeping one working entry per command: the entry of a
\* command that is already in working_commands is overwritten.
log_response_overwriting(command, response) ==
    /\ response_buffer' = Append(response_buffer, <<command, response>>)
    /\ working_commands' =
           IF Truthy(response) /\ response \notin {ER_UNKNOWN_COMMAND, OK, SENT}
           THEN IF \E k \in DOMAIN working_commands : working_commands[k][1] = command
                THEN [k \in DOMAIN working_commands |->
                         IF working_commands[k][1] = command
                         THEN <<command, response>>
                         ELSE working_commands[k]]
                ELSE Append(working_commands, <<command, response>>)
           ELSE working_commands

\* log_response putting the newest working entry first.
log_response_working_first(command, response) ==
    /\ response_buffer' = Append(response_buffer, <<command, response>>)
    /\ working_commands' =
           IF Truthy(response) /\ response \notin {ER_UNKNOWN_COMMAND, OK, SENT}
           THEN << <<command, response>> >> \o working_commands
           ELSE working_commands

\* log_response putting the newest record first.
log_response_newest_first(command, response) ==
    /\ response_buffer' = << <<command, response>> >> \o response_buffer
    /\ working_commands' =
           IF Truthy(response) /\ response \notin {ER_UNKNOWN_COMMAND, OK, SENT}
           THEN Append(working_commands, <<command, response>>)
           ELSE working_commands

\* DeviceTesting.log_response
log_response(command, response) ==
    /\ response_buffer' = Append(response_buffer, <<command, response>>)
    /\ working_commands' =
           IF Truthy(response) /\ response \notin {ER_UNKNOWN_COMMAND, OK, SENT}
           THEN Append(working_commands, <<command, response>>)
           ELSE working_commands

\* The timeout test widened to every falsy result.
IsTimeout_or_empty(response) == ~Truthy(response) \/ response = TIMEOUT

\* The timeout test against a sentinel spelled differently.
IsTimeout_misspelled(response) == response = <<"T", "i", "m", "e", "o", "u", "t">>

\* test_single_command, line 33: the exchange came back as the timeout sentinel.
IsTimeout(response) == response = TIMEOUT

\* The success test without the unknown-command string.
IsSuccess_with_unknown(response) == response \notin {OK, SENT}

\* The success test without the write-only acknowledgment.
IsSuccess_without_sent(response) == response \notin {ER_UNKNOWN_COMMAND, OK}

\* test_single_command, line 39: the response counts as a success.
IsSuccess(response) == response \notin {ER_UNKNOWN_COMMAND, OK, SENT}

\* DeviceTesting.test_single_command.  The timeout-sensitive branch calls
\* send_command_with_timeout(command, timeout=500), a keyword the method
\* does not have: the call raises TypeError before anything is sent.
test_single_command(command, timeout_sensitive, out) ==
    IF timeout_sensitive
    THEN /\ pc' = "raised"
         /\ UNCHANGED <<comm, response_buffer, working_commands,
                        timeout_commands, ret, attempts>>
    ELSE LET response == send_command(command, out) IN
         /\ Transport(2000, out)
         /\ attempts' = Append(attempts, Attempt("single", command, 2000, response, Met(out)))
         /\ pc' = pc
         /\ IF IsTimeout(response)
            THEN /\ timeout_commands' = Append(timeout_commands, command)
                 /\ ret' = FALSE
                 /\ UNCHANGED <<response_buffer, working_commands>>
            ELSE IF Truthy(response)
            THEN /\ log_response(command, response)
                 /\ ret' = IsSuccess(response)
                 /\ UNCHANGED timeout_commands
            ELSE /\ ret' = FALSE
                 /\ UNCHANGED <<response_buffer, working_commands, timeout_commands>>

\* One pass of the loop of DeviceTesting.test_bulk_data_commands.
test_bulk_data_commands_step(cmd, out) ==
    LET response == send_command(cmd, out) IN
    /\ Transport(2000, out)
    /\ attempts' =
           Append(attempts, Attempt("bulk", cmd, 2000, response, Met(out)))
    /\ IF Truthy(response) /\ response \notin {ER_UNKNOWN_COMMAND, TIMEOUT}
       THEN IF Len(response) > 50
            THEN log_response(cmd, response)
            ELSE IF response \notin {OK, SENT}
            THEN log_response(cmd, response)
            ELSE UNCHANGED <<response_buffer, working_commands>>
       ELSE UNCHANGED <<response_buffer, working_commands>>
    /\ UNCHANGED <<timeout_commands, ret>>

\* One pass of the loop of DeviceTesting.analyze_current_state.
analyze_current_state_step(cmd, out) ==
    LET response == send_command(cmd, out) IN
    /\ Transport(2000, out)
    /\ attempts' =
           Append(attempts, Attempt("analyze", cmd, 2000, response, Met(out)))
    /\ IF Truthy(response)
       THEN log_response(cmd, response)
       ELSE UNCHANGED <<response_buffer, working_commands>>
    /\ UNCHANGED <<timeout_commands, ret>>

\* ------------------------------------------------------------- the session

\* connect_via_pyvisa, line 138: the timeout the link is opened with.
VisaTimeout == 5000

\* main after connect_via_pyvisa or connect_raw_usb succeeded.
Connected ==
    \/ visa_resource = TRUE /\ device = "None" /\ visa_timeout = VisaTimeout
    \/ /\ visa_resource = FALSE
       /\ device \in {"bulk_in_out", "bulk_out_only", "no_bulk_out"}
       /\ visa_timeout = 0

\* DeviceTesting.__init__
TesterInit ==
    /\ response_buffer = <<>>
    /\ working_commands = <<>>
    /\ timeout_commands = <<>>
    /\ pc = "menu"
    /\ pos = 0
    /\ ret = FALSE
    /\ attempts = <<>>

Exchange(kind, n, command, timeout_ms, response) ==
    [kind |-> kind, i |-> n, cmd |-> command, timeout |-> timeout_ms,
     resp |-> response]

\* Who gave file_count, and what the operator typed when it was the operator.
CountFrom(by, typed) == [by |-> by, typed |-> typed]

\* main at its menu, before option 8 was ever chosen.
RecallInit ==
    /\ rpc = "menu"
    /\ file_count = 0
    /\ i = 0
    /\ sel = 1
    /\ fet = 1
    /\ found_data = FALSE
    /\ sel_sent = 0
    /\ fetch_sent = 0
    /\ query_sent = 0
    /\ successes = 0
    /\ last = Exchange("none", 0, <<>>, 0, NONE)
    /\ count_source = CountFrom("none", <<>>)
    /\ all_timed_out = TRUE
    /\ fetch_data = FALSE
    /\ done = <<>>

\* probe_all_commands not yet called.
ProbeInit ==
    /\ cat = 0
    /\ total_commands = 0
    /\ successful_commands = 0
    /\ category_success = 0

\* OlympusDataExtractor.__init__
ExtractorInit ==
    /\ xpc = "idle"
    /\ xpos = 0
    /\ x_file_count = 0
    /\ x_count_from = "none"
    /\ x_raised = FALSE
    /\ x_tried = <<>>
    /\ x_results = 0
    /\ x_i = 0
    /\ x_n = 0
    /\ x_last = Attempt("none", <<>>, 0, NONE, "nothing")

\* No call of send_command_with_timeout is in progress.
LinkInit ==
    /\ in_flight = <<>>
    /\ written = <<>>

\* main at its menu, the basic connectivity test behind it: nothing has
\* disconnected and no report is written.
MenuInit ==
    /\ phase = "menu"
    /\ basic_sent = 0
    /\ basic_success = 0
    /\ disconnects = 0
    /\ report_written = FALSE
    /\ ended_by = "none"

\* A value of a Python variable that holds a float or None; floats are
\* kept in thousandths.
NoValue == [some |-> FALSE, val |-> 0]
Float(milli) == [some |-> TRUE, val |-> milli]

\* NDTThicknessApp after build and a connect_serial that opened the port
\* and started the thread of read_serial.
SerialInit ==
    /\ running = TRUE
    /\ reader = "loop"
    /\ reads = 0
    /\ value = NoValue
    /\ events = <<>>
    /\ ui = "ok"
    /\ shown = <<>>
    /\ readings = <<>>
    /\ last_value = NoValue
    /\ data = <<>>

Init ==
    Connected /\ TesterInit /\ RecallInit /\ ProbeInit /\ ExtractorInit
        /\ LinkInit /\ MenuInit /\ SerialInit

TestSingleCommand ==
    /\ UNCHANGED <<rvars, xvars, lvars, mvars, serial, pvars>>
    /\ pc = "menu"
    /\ Len(attempts) < MaxExchanges
    /\ \E command \in SingleCommands, timeout_sensitive \in BOOLEAN,
          out \in DeviceOutcomes :
           test_single_command(command, timeout_sensitive, out)
    /\ UNCHANGED pos

TestBulkCall ==
    /\ UNCHANGED <<rvars, xvars, lvars, mvars, serial, pvars>>
    /\ pc = "menu"
    /\ Len(attempts) + BulkLen <= MaxExchanges
    /\ pc' = "bulk"
    /\ pos' = 1
    /\ UNCHANGED <<comm, response_buffer, working_commands,
                   timeout_commands, ret, attempts>>

TestBulkStep ==
    /\ UNCHANGED <<rvars, xvars, lvars, mvars, serial, pvars>>
    /\ pc = "bulk"
    /\ pos <= BulkLen
    /\ \E out \in DeviceOutcomes : test_bulk_data_commands_step(bulk_commands[pos], out)
    /\ pos' = pos + 1
    /\ UNCHANGED pc

TestBulkReturn ==
    /\ UNCHANGED <<rvars, xvars, lvars, mvars, serial, pvars>>
    /\ pc = "bulk"
    /\ pos > BulkLen
    /\ pc' = "menu"
    /\ pos' = 0
    /\ UNCHANGED <<comm, response_buffer, working_commands,
                   timeout_commands, ret, attempts>>

AnalyzeCall ==
    /\ UNCHANGED <<rvars, xvars, lvars, mvars, serial, pvars>>
    /\ pc = "menu"
    /\ Len(attempts) + StatusLen <= MaxExchanges
    /\ pc' = "analyze"
    /\ pos' = 1
    /\ UNCHANGED <<comm, response_buffer, working_commands,
                   timeout_commands, ret, attempts>>

AnalyzeStep ==
    /\ UNCHANGED <<rvars, xvars, lvars, mvars, serial, pvars>>
    /\ pc = "analyze"
    /\ pos <= StatusLen
    /\ \E out \in DeviceOutcomes : analyze_current_state_step(status_commands[pos], out)
    /\ pos' = pos + 1
    /\ UNCHANGED pc

AnalyzeReturn ==
    /\ UNCHANGED <<rvars, xvars, lvars, mvars, serial, pvars>>
    /\ pc = "analyze"
    /\ pos > StatusLen
    /\ pc' = "menu"
    /\ pos' = 0
    /\ UNCHANGED <<comm, response_buffer, working_commands,
                   timeout_commands, ret, attempts>>

Next ==
    \/ TestSingleCommand
    \/ TestBulkCall
    \/ TestBulkStep
    \/ TestBulkReturn
    \/ AnalyzeCall
    \/ AnalyzeStep
    \/ AnalyzeReturn

Spec == Init /\ [][Next]_vars

\* ----------------------------------------------------- main, option 8

\* The count taken from the second field of the response.
ParseFileCount_second_field(mem_response) ==
    IF /\ Truthy(mem_response)
       /\ ~Contains(<<"E", "R", ":">>, mem_response)
       /\ ~Contains(TIMEOUT, mem_response)
    THEN LET tokens == Split(mem_response) IN
         IF Len(tokens) >= 3 /\ ParseInt(tokens[2]).ok
         THEN ParseInt(tokens[2]).val
         ELSE 0
    ELSE 0

\* The count taken from the MEMORY? response; 0 when there is none.
ParseFileCount(mem_response) ==
    IF /\ Truthy(mem_response)
       /\ ~Contains(<<"E", "R", ":">>, mem_response)
       /\ ~Contains(TIMEOUT, mem_response)
    THEN LET tokens == Split(mem_response) IN
         IF Len(tokens) >= 3 /\ ParseInt(tokens[3]).ok
         THEN ParseInt(tokens[3]).val
         ELSE 0
    ELSE 0

\* The manual fallback: int(count_input) if count_input else 0, on the
\* stripped input; ok = FALSE is the ValueError branch.
ManualCount(typed) ==
    LET count_input == Strip(typed) IN
    IF count_input = <<>> THEN [ok |-> TRUE, val |-> 0] ELSE ParseInt(count_input)

\* The success test of both recall strategies (lines 179 and 194).
IsRecallSuccess(response) ==
    Truthy(response) /\ response \notin {ER_UNKNOWN_COMMAND, TIMEOUT, OK}

\* for i in range(1, file_count + 1): the start of the body for index n.
BeginIndex(n) ==
    /\ i' = n
    /\ found_data' = FALSE
    /\ rpc' = "select"
    /\ sel' = 1
    /\ fet' = 1
    /\ sel_sent' = 0
    /\ fetch_sent' = 0
    /\ query_sent' = 0
    /\ successes' = 0
    /\ all_timed_out' = TRUE
    /\ fetch_data' = FALSE

\* Option 8 up to the index loop: ask MEMORY?, parse, fall back to the
\* operator's count, and start the loop or go back to the menu.
RecallCount ==
    /\ rpc = "menu"
    /\ \E out \in MemoryOutcomes, typed \in InputTexts :
           LET mem_response == send_command(MEMORY_QUERY, out)
               parsed == ParseFileCount(mem_response)
               manual == ManualCount(typed)
               count == IF parsed = 0 THEN manual.val ELSE parsed
           IN  /\ Transport(2000, out)
               /\ last' = Exchange("count", 0, MEMORY_QUERY, 2000, mem_response)
               /\ done' = <<>>
               /\ IF parsed = 0 /\ ~manual.ok
                  THEN /\ file_count' = 0
                       /\ count_source' = CountFrom("none", typed)
                       /\ UNCHANGED <<rpc, i, sel, fet, found_data, sel_sent,
                                      fetch_sent, query_sent, successes,
                                      all_timed_out, fetch_data>>
                  ELSE /\ file_count' = count
                       /\ count_source' =
                              IF parsed = 0 THEN CountFrom("operator", typed)
                              ELSE CountFrom("device", <<>>)
                       /\ IF count > 0
                          THEN BeginIndex(1)
                          ELSE UNCHANGED <<rpc, i, sel, fet, found_data, sel_sent,
                                           fetch_sent, query_sent, successes,
                                           all_timed_out, fetch_data>>
    /\ UNCHANGED <<svars, pvars, xvars, lvars, mvars, serial>>

\* The select result put through the success test of the fetches: a
\* select that returns data is counted and ends the index.
AfterSelect_counting_data(response) ==
    IF IsRecallSuccess(response)
    THEN [found_data |-> TRUE, successes |-> successes + 1, rpc |-> "next", fet |-> fet]
    ELSE [found_data |-> found_data, successes |-> successes, rpc |-> "fetch", fet |-> 1]

\* Line 174: the value of the select exchange is dropped; the fetch loop
\* of line 177 starts at its first command.
AfterSelect(response) ==
    [found_data |-> found_data, successes |-> successes, rpc |-> "fetch", fet |-> 1]

\* Strategy 1, the select command: its response is dropped.
RecallSelect ==
    /\ rpc = "select"
    /\ \E out \in DeviceOutcomes :
           LET select_cmd == FormatSelect(select_formats[sel], i)
               response == send_command_with_timeout(select_cmd, 1000, out)
               to == AfterSelect(response)
           IN  /\ Transport(1000, out)
               /\ last' = Exchange("select", i, select_cmd, 1000, response)
               /\ all_timed_out' = (all_timed_out /\ response = TIMEOUT)
               /\ found_data' = to.found_data
               /\ successes' = to.successes
               /\ rpc' = to.rpc
               /\ fet' = to.fet
    /\ sel_sent' = sel_sent + 1
    /\ UNCHANGED <<svars, pvars, xvars, lvars, mvars, serial, file_count, i, sel, fetch_sent,
                   query_sent, count_source, fetch_data, done>>

\* Where the fetch loop goes when the select formats are tried round and
\* round until one of them finds something.
AfterFetch_retry_selects(success) ==
    IF success
    THEN [rpc |-> "next", sel |-> sel, fet |-> fet]
    ELSE IF fet < Len(fetch_commands)
    THEN [rpc |-> "fetch", sel |-> sel, fet |-> fet + 1]
    ELSE IF sel < Len(select_formats)
    THEN [rpc |-> "select", sel |-> sel + 1, fet |-> 1]
    ELSE [rpc |-> "select", sel |-> 1, fet |-> 1]

\* Where the fetch loop goes with only the inner break: the select loop
\* goes on after a success.
AfterFetch_inner_break_only(success) ==
    IF ~success /\ fet < Len(fetch_commands)
    THEN [rpc |-> "fetch", sel |-> sel, fet |-> fet + 1]
    ELSE IF sel < Len(select_formats)
    THEN [rpc |-> "select", sel |-> sel + 1, fet |-> 1]
    ELSE IF success
    THEN [rpc |-> "next", sel |-> sel, fet |-> fet]
    ELSE [rpc |-> "query", sel |-> sel, fet |-> 1]

\* Where the fetch loop goes without lines 186-187: strategy 2 is tried
\* after a success of strategy 1 too.
AfterFetch_without_continue(success) ==
    IF success
    THEN [rpc |-> "query", sel |-> sel, fet |-> 1]
    ELSE IF fet < Len(fetch_commands)
    THEN [rpc |-> "fetch", sel |-> sel, fet |-> fet + 1]
    ELSE IF sel < Len(select_formats)
    THEN [rpc |-> "select", sel |-> sel + 1, fet |-> 1]
    ELSE [rpc |-> "query", sel |-> sel, fet |-> 1]

\* Where the nested loops go after a fetch: on success both loops break and
\* the index is done; otherwise the next fetch, the next select, or
\* strategy 2.
AfterFetch(success) ==
    IF success
    THEN [rpc |-> "next", sel |-> sel, fet |-> fet]
    ELSE IF fet < Len(fetch_commands)
    THEN [rpc |-> "fetch", sel |-> sel, fet |-> fet + 1]
    ELSE IF sel < Len(select_formats)
    THEN [rpc |-> "select", sel |-> sel + 1, fet |-> 1]
    ELSE [rpc |-> "query", sel |-> sel, fet |-> 1]

\* Strategy 1, one fetch command after a select.
RecallFetch ==
    /\ rpc = "fetch"
    /\ \E out \in DeviceOutcomes :
           LET fetch_cmd == fetch_commands[fet]
               response == send_command_with_timeout(fetch_cmd, 3000, out)
               success == IsRecallSuccess(response)
               to == AfterFetch(success)
           IN  /\ Transport(3000, out)
               /\ last' = Exchange("fetch", i, fetch_cmd, 3000, response)
               /\ all_timed_out' = (all_timed_out /\ response = TIMEOUT)
               /\ fetch_data' = (fetch_data \/ IsData(response))
               /\ found_data' = (found_data \/ success)
               /\ successes' = IF success THEN successes + 1 ELSE successes
               /\ rpc' = to.rpc
               /\ sel' = to.sel
               /\ fet' = to.fet
    /\ fetch_sent' = fetch_sent + 1
    /\ UNCHANGED <<svars, pvars, xvars, lvars, mvars, serial, file_count, i,
                   sel_sent, query_sent,
                   count_source, done>>

\* Strategy 2, one composite query.
RecallQuery ==
    /\ rpc = "query"
    /\ \E out \in DeviceOutcomes :
           LET fetch_cmd_base == RemoveQuery(fetch_commands[fet])
               query_cmd == FormatQuery(fetch_cmd_base, i)
               response == send_command_with_timeout(query_cmd, 3000, out)
               success == IsRecallSuccess(response)
           IN  /\ Transport(3000, out)
               /\ last' = Exchange("query", i, query_cmd, 3000, response)
               /\ found_data' = (found_data \/ success)
               /\ successes' = IF success THEN successes + 1 ELSE successes
               /\ IF success \/ fet = Len(fetch_commands)
                  THEN rpc' = "next" /\ fet' = fet
                  ELSE rpc' = "query" /\ fet' = fet + 1
    /\ query_sent' = query_sent + 1
    /\ UNCHANGED <<svars, pvars, xvars, lvars, mvars, serial, file_count, i, sel,
                   sel_sent, fetch_sent,
                   count_source, all_timed_out, fetch_data, done>>

\* The loop left at the first index that found nothing.
MoreIndexes_stop_on_miss == i < file_count /\ found_data

\* range(1, file_count + 1), line 166: there is an index after i.
MoreIndexes == i < file_count

\* The end of the body for index i: the next index, or the end of the loop
\* and back to the menu.
RecallNextIndex ==
    /\ rpc = "next"
    /\ done' = Append(done, found_data)
    /\ IF MoreIndexes
       THEN BeginIndex(i + 1)
       ELSE /\ rpc' = "menu"
            /\ UNCHANGED <<i, sel, fet, found_data, sel_sent, fetch_sent,
                           query_sent, successes, all_timed_out, fetch_data>>
    /\ UNCHANGED <<comm, svars, pvars, xvars, lvars, mvars, serial, file_count, last,
                   count_source>>

NextRecall ==
    \/ RecallCount
    \/ RecallSelect
    \/ RecallFetch
    \/ RecallQuery
    \/ RecallNextIndex

\* main reaches its menu only when one of the four basic probes of lines
\* 54-70 came back as data, which a link without a read channel never gives.
MenuReached == visa_resource \/ device = "bulk_in_out"

InitRecall == Init /\ MenuReached

SpecRecall == InitRecall /\ [][NextRecall]_vars

\* A step of the index loop.  The loop runs in main's only thread and
\* every exchange returns, with a reply or when its timeout budget is
\* spent, so a step that can be taken is taken.
RecallLoopStep ==
    \/ RecallSelect
    \/ RecallFetch
    \/ RecallQuery
    \/ RecallNextIndex

SpecRecallFair == SpecRecall /\ WF_vars(RecallLoopStep)

\* ------------------------------------------------- probe_all_commands

\* How many commands of each category a probe of the catalog sends.
MaxCategory == 1

\* The command lists of device_commands.py.
SCPI_COMMANDS ==
    << <<"*", "I", "D", "N", "?">>, <<"*", "R", "S", "T">>,
       <<"*", "T", "S", "T", "?">>, <<"*", "C", "L", "S">>,
       <<"*", "E", "S", "R", "?">>, <<"*", "S", "T", "B", "?">>,
       <<"*", "O", "P", "C", "?">> >>

BASIC_COMMANDS ==
    << <<"?">>, <<"H", "E", "L", "P">>,
       <<"C", "O", "M", "M", "A", "N", "D", "S">>, <<"C", "M", "D">>,
       <<"L", "I", "S", "T">>, <<"V", "E", "R", "?">>,
       <<"V", "E", "R", "S", "I", "O", "N", "?">>, <<"I", "D", "?">>,
       <<"I", "N", "F", "O", "?">> >>

NDT_DISCOVERY_COMMANDS ==
    << <<"D", "I", "R">>, <<"D", "I", "R", "?">>, <<"L", "S">>,
       <<"L", "S", "?">>, <<"F", "I", "L", "E", "S">>,
       <<"F", "I", "L", "E", "S", "?">>, <<"L", "I", "S", "T">>,
       <<"L", "I", "S", "T", "?">>, <<"C", "A", "T", "A", "L", "O", "G">>,
       <<"C", "A", "T", "A", "L", "O", "G", "?">>, <<"I", "N", "D", "E", "X">>,
       <<"I", "N", "D", "E", "X", "?">>, <<"N", "A", "M", "E", "S">>,
       <<"N", "A", "M", "E", "S", "?">>, <<"E", "N", "U", "M">>,
       <<"E", "N", "U", "M", "?">>, <<"C", "O", "U", "N", "T">>,
       <<"C", "O", "U", "N", "T", "?">>, <<"S", "I", "Z", "E">>,
       <<"S", "I", "Z", "E", "?">>, <<"U", "S", "E", "D">>,
       <<"U", "S", "E", "D", "?">>, <<"F", "R", "E", "E">>,
       <<"F", "R", "E", "E", "?">>, <<"F", "I", "R", "S", "T">>,
       <<"F", "I", "R", "S", "T", "?">>, <<"L", "A", "S", "T">>,
       <<"L", "A", "S", "T", "?">>, <<"N", "E", "X", "T">>,
       <<"N", "E", "X", "T", "?">>, <<"P", "R", "E", "V">>,
       <<"P", "R", "E", "V", "?">>, <<"A", "L", "L">>, <<"A", "L", "L", "?">>,
       <<"0">>, <<"0", "?">>, <<"1">>, <<"1", "?">>, <<"2">>, <<"2", "?">>,
       <<"3">>, <<"3", "?">>, <<"4">>, <<"4", "?">>, <<"5">>, <<"5", "?">> >>

NDT_FILE_COMMANDS ==
    << <<"F", "I", "L", "E">>, <<"F", "I", "L", "E", "?">>,
       <<"F", "I", "L", "E", "N", "A", "M", "E">>,
       <<"F", "I", "L", "E", "N", "A", "M", "E", "?">>,
       <<"C", "U", "R", "R", "E", "N", "T">>,
       <<"C", "U", "R", "R", "E", "N", "T", "?">>,
       <<"A", "C", "T", "I", "V", "E">>, <<"A", "C", "T", "I", "V", "E", "?">>,
       <<"O", "P", "E", "N">>, <<"O", "P", "E", "N", "?">>, <<"F", "1">>,
       <<"F", "1", "?">>, <<"F", "2">>, <<"F", "2", "?">>, <<"F", "3">>,
       <<"F", "3", "?">>, <<"F", "O", "R", "M", "A", "T">>,
       <<"F", "O", "R", "M", "A", "T", "?">>, <<"E", "X", "P", "O", "R", "T">>,
       <<"E", "X", "P", "O", "R", "T", "?">>, <<"D", "U", "M", "P">>,
       <<"D", "U", "M", "P", "?">>, <<"T", "R", "A", "N", "S", "F", "E", "R">>,
       <<"T", "R", "A", "N", "S", "F", "E", "R", "?">>, <<"S", "E", "N", "D">>,
       <<"S", "E", "N", "D", "?">>, <<"T", "A", "B", "L", "E">>,
       <<"T", "A", "B", "L", "E", "?">>, <<"D", "A", "T", "A">>,
       <<"D", "A", "T", "A", "?">>,
       <<"M", "E", "A", "S", "U", "R", "E", "M", "E", "N", "T", "S">>,
       <<"M", "E", "A", "S", "U", "R", "E", "M", "E", "N", "T", "S", "?">>,
       <<"T", "H", "I", "C", "K", "N", "E", "S", "S">>,
       <<"T", "H", "I", "C", "K", "N", "E", "S", "S", "?">>,
       <<"V", "E", "L", "O", "C", "I", "T", "Y">>,
       <<"V", "E", "L", "O", "C", "I", "T", "Y", "?">>, <<"T", "O", "F">>,
       <<"T", "O", "F", "?">>,
       <<"T", "R", "A", "N", "S", "D", "U", "C", "E", "R">>,
       <<"T", "R", "A", "N", "S", "D", "U", "C", "E", "R", "?">> >>

NDT_MEMORY_COMMANDS ==
    << <<"M", "E", "M">>, <<"M", "E", "M", "?">>,
       <<"M", "E", "M", "O", "R", "Y">>, <<"M", "E", "M", "O", "R", "Y", "?">>,
       <<"S", "T", "O", "R", "E">>, <<"S", "T", "O", "R", "E", "?">>,
       <<"R", "E", "C", "A", "L", "L">>, <<"R", "E", "C", "A", "L", "L", "?">>,
       <<"S", "A", "V", "E">>, <<"S", "A", "V", "E", "?">>,
       <<"L", "O", "A", "D">>, <<"L", "O", "A", "D", "?">>,
       <<"C", "L", "E", "A", "R">>, <<"C", "L", "E", "A", "R", "?">>,
       <<"0", "0", "1">>, <<"0", "0", "1", "?">>, <<"0", "0", "2">>,
       <<"0", "0", "2", "?">>, <<"0", "0", "3">>, <<"0", "0", "3", "?">>,
       <<"0", "0", "4">>, <<"0", "0", "4", "?">>, <<"0", "0", "5">>,
       <<"0", "0", "5", "?">>, <<"B", "A", "N", "K">>,
       <<"B", "A", "N", "K", "?">>, <<"S", "L", "O", "T">>,
       <<"S", "L", "O", "T", "?">>, <<"L", "O", "C", "A", "T", "I", "O", "N">>,
       <<"L", "O", "C", "A", "T", "I", "O", "N", "?">> >>

NDT_CONFIG_COMMANDS ==
    << <<"S", "T", "A", "T", "U", "S", "?">>, <<"S", "T", "A", "T", "E", "?">>,
       <<"M", "O", "D", "E", "?">>, <<"U", "N", "I", "T", "S", "?">>,
       <<"R", "A", "N", "G", "E", "?">>, <<"G", "A", "I", "N", "?">>,
       <<"V", "E", "L", "?">>, <<"F", "R", "E", "Q", "?">>,
       <<"Z", "E", "R", "O", "?">>, <<"C", "A", "L", "?">>,
       <<"S", "E", "T", "U", "P", "?">>, <<"C", "O", "N", "F", "I", "G", "?">>,
       <<"D", "I", "F", "F", "?">>, <<"L", "O", "_", "A", "L", "M", "?">>,
       <<"H", "I", "_", "A", "L", "M", "?">>, <<"B", "A", "S", "E", "?">>,
       <<"S", "U", "?">>, <<"F", "L", "A", "G", "S", "?">> >>

NDT_PROTOCOL_COMMANDS ==
    << <<"S", "T", "A", "R", "T">>, <<"S", "T", "A", "R", "T", "?">>,
       <<"B", "E", "G", "I", "N">>, <<"B", "E", "G", "I", "N", "?">>,
       <<"F", "E", "T", "C", "H">>, <<"F", "E", "T", "C", "H", "?">>,
       <<"G", "E", "T">>, <<"G", "E", "T", "?">>, <<"P", "U", "L", "L">>,
       <<"P", "U", "L", "L", "?">>, <<"R", "E", "T", "R", "I", "E", "V", "E">>,
       <<"R", "E", "T", "R", "I", "E", "V", "E", "?">>,
       <<"D", "O", "W", "N", "L", "O", "A", "D">>,
       <<"D", "O", "W", "N", "L", "O", "A", "D", "?">>,
       <<"U", "P", "L", "O", "A", "D">>, <<"U", "P", "L", "O", "A", "D", "?">>,
       <<"B", "U", "F", "F", "E", "R">>, <<"B", "U", "F", "F", "E", "R", "?">>,
       <<"S", "T", "R", "E", "A", "M">>, <<"S", "T", "R", "E", "A", "M", "?">>,
       <<"O", "U", "T", "P", "U", "T">>, <<"O", "U", "T", "P", "U", "T", "?">>,
       <<"P", "R", "I", "N", "T">>, <<"P", "R", "I", "N", "T", "?">>,
       <<"S", "H", "O", "W">>, <<"S", "H", "O", "W", "?">>,
       <<"D", "I", "S", "P", "L", "A", "Y">>,
       <<"D", "I", "S", "P", "L", "A", "Y", "?">> >>

SINGLE_CHAR_COMMANDS ==
    << <<"A">>, <<"B">>, <<"C">>, <<"D">>, <<"E">>, <<"F">>, <<"G">>, <<"H">>,
       <<"I">>, <<"J">>, <<"K">>, <<"L">>, <<"M">>, <<"N">>, <<"O">>, <<"P">>,
       <<"Q">>, <<"R">>, <<"S">>, <<"T">>, <<"U">>, <<"V">>, <<"W">>, <<"X">>,
       <<"Y">>, <<"Z">>, <<"A", "?">>, <<"B", "?">>, <<"C", "?">>,
       <<"D", "?">>, <<"E", "?">>, <<"F", "?">>, <<"G", "?">>, <<"H", "?">>,
       <<"I", "?">>, <<"J", "?">>, <<"K", "?">>, <<"L", "?">>, <<"M", "?">>,
       <<"N", "?">>, <<"O", "?">>, <<"P", "?">>, <<"Q", "?">>, <<"R", "?">>,
       <<"S", "?">>, <<"T", "?">>, <<"U", "?">>, <<"V", "?">>, <<"W", "?">>,
       <<"X", "?">>, <<"Y", "?">>, <<"Z", "?">>, <<"0">>, <<"1">>, <<"2">>,
       <<"3">>, <<"4">>, <<"5">>, <<"6">>, <<"7">>, <<"8">>, <<"9">>,
       <<"0", "?">>, <<"1", "?">>, <<"2", "?">>, <<"3", "?">>, <<"4", "?">>,
       <<"5", "?">>, <<"6", "?">>, <<"7", "?">>, <<"8", "?">>, <<"9", "?">> >>

OLYMPUS_45MG_DATA_COMMANDS ==
    << <<"M", "E", "A", "S", "?">>, <<"T", "H", "I", "C", "K", "?">>,
       <<"R", "E", "A", "D", "?">>, <<"V", "A", "L", "U", "E", "?">>,
       <<"L", "A", "S", "T", "?">>,
       <<"R", "E", "C", "A", "L", "L", " ", "0", "0", "1">>,
       <<"R", "E", "C", "A", "L", "L", " ", "0", "0", "2">>,
       <<"R", "E", "C", "A", "L", "L", " ", "0", "0", "3">>,
       <<"R", "E", "C", "A", "L", "L", " ", "0", "0", "4">>,
       <<"R", "E", "C", "A", "L", "L", " ", "0", "0", "5">>,
       <<"R", "C", "L", " ", "0", "0", "1">>,
       <<"R", "C", "L", " ", "0", "0", "2">>,
       <<"R", "C", "L", " ", "0", "0", "3">>,
       <<"R", "C", "L", " ", "0", "0", "4">>,
       <<"R", "C", "L", " ", "0", "0", "5">>,
       <<"M", "E", "M", ":", "0", "0", "1">>,
       <<"M", "E", "M", ":", "0", "0", "2">>,
       <<"M", "E", "M", ":", "0", "0", "3">>,
       <<"M", "E", "M", ":", "0", "0", "4">>,
       <<"M", "E", "M", ":", "0", "0", "5">>,
       <<"M", "E", "M", ":", "0", "0", "1", "?">>,
       <<"M", "E", "M", ":", "0", "0", "2", "?">>,
       <<"M", "E", "M", ":", "0", "0", "3", "?">>,
       <<"M", "E", "M", ":", "0", "0", "4", "?">>,
       <<"M", "E", "M", ":", "0", "0", "5", "?">>,
       <<"M", "E", "M", ":", "0", "0", "6">>,
       <<"M", "E", "M", ":", "0", "0", "7">>,
       <<"M", "E", "M", ":", "0", "0", "8">>,
       <<"M", "E", "M", ":", "0", "0", "9">>,
       <<"M", "E", "M", ":", "0", "1", "0">>,
       <<"M", "E", "M", ":", "0", "0", "6", "?">>,
       <<"M", "E", "M", ":", "0", "0", "7", "?">>,
       <<"M", "E", "M", ":", "0", "0", "8", "?">>,
       <<"M", "E", "M", ":", "0", "0", "9", "?">>,
       <<"M", "E", "M", ":", "0", "1", "0", "?">>,
       <<"R", "E", "C", "A", "L", "L", " ", "0", "0", "6">>,
       <<"R", "E", "C", "A", "L", "L", " ", "0", "0", "7">>,
       <<"R", "E", "C", "A", "L", "L", " ", "0", "0", "8">>,
       <<"R", "E", "C", "A", "L", "L", " ", "0", "0", "9">>,
       <<"R", "E", "C", "A", "L", "L", " ", "0", "1", "0">>,
       <<"B", "L", "O", "C", "K", "?">>,
       <<"S", "E", "G", "M", "E", "N", "T", "?">>,
       <<"R", "E", "C", "O", "R", "D", "?">>, <<"E", "N", "T", "R", "Y", "?">>,
       <<"L", "O", "G", "?">>, <<"H", "I", "S", "T", "O", "R", "Y", "?">> >>

OLYMPUS_45MG_DATALOGGER_COMMANDS ==
    << <<"G", "R", "I", "D", ":", "D", "A", "T", "A", "?">>,
       <<"G", "R", "I", "D", ":", "E", "X", "P", "O", "R", "T", "?">>,
       <<"G", "R", "I", "D", ":", "L", "I", "S", "T", "?">>,
       <<"G", "R", "I", "D", ":", "A", "L", "L", "?">>,
       <<"G", "R", "I", "D", ":", "C", "O", "U", "N", "T", "?">>,
       <<"G", "R", "I", "D", ":", "D", "U", "M", "P", "?">>,
       <<"S", "E", "Q", ":", "D", "A", "T", "A", "?">>,
       <<"S", "E", "Q", ":", "L", "I", "S", "T", "?">>,
       <<"S", "E", "Q", ":", "E", "X", "P", "O", "R", "T", "?">>,
       <<"S", "E", "Q", ":", "A", "L", "L", "?">>,
       <<"S", "E", "Q", ":", "C", "O", "U", "N", "T", "?">>,
       <<"D", "L", "O", "G", ":", "D", "A", "T", "A", "?">>,
       <<"D", "L", "O", "G", ":", "L", "I", "S", "T", "?">>,
       <<"D", "L", "O", "G", ":", "E", "X", "P", "O", "R", "T", "?">>,
       <<"D", "L", "O", "G", ":", "A", "L", "L", "?">>,
       <<"D", "L", "O", "G", ":", "C", "O", "U", "N", "T", "?">>,
       <<"D", "L", "O", "G", ":", "D", "U", "M", "P", "?">>,
       <<"F", "I", "L", "E", "S", ":", "L", "I", "S", "T", "?">>,
       <<"F", "I", "L", "E", "S", ":", "C", "O", "U", "N", "T", "?">>,
       <<"F", "I", "L", "E", "S", ":", "E", "X", "P", "O", "R", "T", "?">>,
       <<"F", "I", "L", "E", "S", ":", "D", "U", "M", "P", "?">>,
       <<"B", "A", "N", "K", ":", "0", "?">>,
       <<"B", "A", "N", "K", ":", "1", "?">>,
       <<"B", "A", "N", "K", ":", "2", "?">>,
       <<"B", "A", "N", "K", ":", "3", "?">>,
       <<"B", "A", "N", "K", ":", "4", "?">>,
       <<"B", "A", "N", "K", ":", "5", "?">>,
       <<"B", "A", "N", "K", ":", "6", "?">>,
       <<"B", "A", "N", "K", ":", "7", "?">>,
       <<"B", "A", "N", "K", ":", "8", "?">>,
       <<"B", "A", "N", "K", ":", "9", "?">>,
       <<"S", "E", "T", "U", "P", ":", "D", "A", "T", "A", "?">>,
       <<"C", "A", "L", ":", "D", "A", "T", "A", "?">>,
       <<"C", "O", "N", "F", "I", "G", ":", "D", "A", "T", "A", "?">>,
       <<"R", "E", "P", "O", "R", "T", ":", "C", "S", "V", "?">>,
       <<"R", "E", "P", "O", "R", "T", ":", "T", "X", "T", "?">>,
       <<"R", "E", "P", "O", "R", "T", ":", "T", "A", "B", "?">>,
       <<"R", "E", "P", "O", "R", "T", ":", "F", "U", "L", "L", "?">> >>

ADVANCED_DATA_COMMANDS ==
    << <<"R", "A", "N", "G", "E", ":", "1", "-", "1", "0">>,
       <<"R", "A", "N", "G", "E", ":", "A", "L", "L">>,
       <<"F", "R", "O", "M", ":", "1">>, <<"T", "O", ":", "1", "0">>,
       <<"C", "S", "V", "?">>, <<"T", "A", "B", "?">>, <<"T", "X", "T", "?">>,
       <<"R", "A", "W", "?">>, <<"B", "A", "T", "C", "H", "?">>,
       <<"B", "U", "L", "K", "?">>, <<"M", "A", "S", "S", "?">>,
       <<"C", "O", "M", "P", "L", "E", "T", "E", "?">>,
       <<"T", "O", "D", "A", "Y", "?">>, <<"R", "E", "C", "E", "N", "T", "?">>,
       <<"L", "A", "T", "E", "S", "T", "?">>,
       <<"O", "L", "D", "E", "S", "T", "?">> >>

UI_SIMULATION_COMMANDS ==
    << <<"E", "N", "T", "E", "R">>, <<"M", "E", "N", "U">>, <<"U", "P">>,
       <<"D", "O", "W", "N">>, <<"L", "E", "F", "T">>,
       <<"R", "I", "G", "H", "T">>, <<"S", "E", "L", "E", "C", "T">>,
       <<"B", "A", "C", "K">>, <<"H", "O", "M", "E">>, <<"E", "S", "C">>,
       <<"M", "E", "N", "U", ":", "D", "A", "T", "A">>,
       <<"M", "E", "N", "U", ":", "M", "E", "M", "O", "R", "Y">>,
       <<"M", "E", "N", "U", ":", "R", "E", "C", "A", "L", "L">>,
       <<"M", "E", "N", "U", ":", "E", "X", "P", "O", "R", "T">> >>

DATA_PROTOCOL_VARIANTS ==
    << <<"G", "E", "T", " ", "A", "L", "L">>,
       <<"G", "E", "T", ":", "A", "L", "L">>,
       <<"G", "E", "T", "=", "A", "L", "L">>,
       <<"E", "X", "P", "O", "R", "T", " ", "A", "L", "L">>,
       <<"E", "X", "P", "O", "R", "T", ":", "A", "L", "L">>,
       <<"D", "A", "T", "A", " ", "A", "L", "L">>,
       <<"D", "A", "T", "A", ":", "A", "L", "L">>,
       <<"F", "O", "R", "M", "A", "T", ":", "F", "1">>,
       <<"F", "O", "R", "M", "A", "T", ":", "F", "2">>,
       <<"F", "O", "R", "M", "A", "T", ":", "F", "3">>,
       <<"F", "O", "R", "M", "A", "T", ":", "C", "S", "V">>,
       <<"F", "O", "R", "M", "A", "T", ":", "T", "A", "B">>,
       <<"B", "I", "N", ":", "A", "L", "L">>,
       <<"H", "E", "X", ":", "A", "L", "L">>,
       <<"A", "S", "C", "I", "I", ":", "A", "L", "L">> >>

OLYMPUS_INTERACTIVE_COMMANDS ==
    << <<"0">>, <<"1">>, <<"2">>, <<"3">>, <<"4">>, <<"5">>, <<"6">>, <<"7">>,
       <<"8">>, <<"9">>, <<"0", "0">>, <<"0", "1">>, <<"0", "2">>,
       <<"0", "3">>, <<"0", "4">>, <<"0", "5">>, <<"0", "6">>, <<"0", "7">>,
       <<"0", "8">>, <<"0", "9">>, <<"0", "0", "0">>, <<"0", "0", "1">>,
       <<"0", "0", "2">>, <<"0", "0", "3">>, <<"0", "0", "4">>,
       <<"0", "0", "5">>, <<"0", "0", "6">>, <<"0", "0", "7">>,
       <<"0", "0", "8">>, <<"0", "0", "9">>, <<"Z", "E", "R", "O">>,
       <<"Z", "E", "R", "O", "?">>, <<"Z">>, <<"Z", "?">>, <<"Z", "E", "R">>,
       <<"Z", "E", "R", "?">>, <<"C", "A", "L">>, <<"C", "A", "L", "?">>,
       <<"C", "A", "L", "I", "B", "R", "A", "T", "E">>,
       <<"C", "A", "L", "I", "B", "R", "A", "T", "E", "?">>,
       <<"N", "U", "L", "L">>, <<"N", "U", "L", "L", "?">>,
       <<"N", "U", "L", "L", "I", "F", "Y">>,
       <<"N", "U", "L", "L", "I", "F", "Y", "?">>,
       <<"B", "A", "S", "E", "L", "I", "N", "E">>,
       <<"B", "A", "S", "E", "L", "I", "N", "E", "?">>, <<"B", "A", "S", "E">>,
       <<"B", "A", "S", "E", "?">>, <<"M", "E", "N", "U">>, <<"M">>,
       <<"E", "S", "C">>, <<"E", "N", "T", "E", "R">>, <<"E", "N", "T">>,
       <<"O", "K">>, <<"U", "P">>, <<"D", "O", "W", "N">>,
       <<"L", "E", "F", "T">>, <<"R", "I", "G", "H", "T">>, <<"U">>, <<"D">>,
       <<"L">>, <<"R">>, <<"S", "E", "L", "E", "C", "T">>, <<"S", "E", "L">>,
       <<"B", "A", "C", "K">>, <<"H", "O", "M", "E">>, <<"H">>, <<"F", "1">>,
       <<"F", "2">>, <<"F", "3">>, <<"F", "4">>, <<"F", "5">>, <<"F", "6">>,
       <<"F", "7">>, <<"F", "8">>, <<"F", "U", "N", "C">>,
       <<"F", "U", "N", "C", "T", "I", "O", "N">>, <<"M", "O", "D", "E">>,
       <<"S", "E", "T", "U", "P">>, <<"C", "O", "N", "F", "I", "G">>,
       <<"S", "T", "O", "R", "E">>, <<"R", "E", "C", "A", "L", "L">>,
       <<"S", "A", "V", "E">>, <<"L", "O", "A", "D">>, <<"M", "E", "M">>,
       <<"S", "T">>, <<"R", "C">>, <<"S", "V">>, <<"L", "D">>, <<"M">>,
       <<"M", "E", "A", "S">>, <<"M", "E", "A", "S", "U", "R", "E">>,
       <<"R", "E", "A", "D">>, <<"T", "A", "K", "E">>,
       <<"S", "A", "M", "P", "L", "E">>, <<"S", "T", "A", "R", "T">>,
       <<"S", "T", "O", "P">>, <<"P", "A", "U", "S", "E">>,
       <<"R", "E", "S", "E", "T">>, <<"C", "L", "E", "A", "R">> >>

\* ALL_COMMAND_CATEGORIES, in the order of the dictionary.  The name
\* OLYMPUS_DATALOGGER_COMMANDS of its tenth entry is defined nowhere in
\* device_commands.py.
Category(name, commands) ==
    [name |-> name, commands |-> commands, defined |-> TRUE]

ALL_COMMAND_CATEGORIES ==
    << Category("SCPI", SCPI_COMMANDS),
       Category("Basic", BASIC_COMMANDS),
       Category("Discovery", NDT_DISCOVERY_COMMANDS),
       Category("File Operations", NDT_FILE_COMMANDS),
       Category("Memory", NDT_MEMORY_COMMANDS),
       Category("Configuration", NDT_CONFIG_COMMANDS),
       Category("Protocol", NDT_PROTOCOL_COMMANDS),
       Category("Single Character", SINGLE_CHAR_COMMANDS),
       Category("Olympus 45MG Data", OLYMPUS_45MG_DATA_COMMANDS),
       [name |-> "Olympus Datalogger", commands |-> <<>>, defined |-> FALSE],
       Category("Olympus 45MG Datalogger", OLYMPUS_45MG_DATALOGGER_COMMANDS),
       Category("Advanced Data", ADVANCED_DATA_COMMANDS),
       Category("UI Simulation", UI_SIMULATION_COMMANDS),
       Category("Protocol Variants", DATA_PROTOCOL_VARIANTS),
       Category("Olympus Interactive", OLYMPUS_INTERACTIVE_COMMANDS) >>

\* probe_all_commands, line 274.
IsTimeoutSensitive(category) == category \in {"File Operations", "Protocol"}

CategoryLen(c) == Min(MaxCategory, Len(ALL_COMMAND_CATEGORIES[c].commands))

\* DeviceTesting.probe_all_commands up to its loop.
ProbeAllCall ==
    /\ pc = "menu"
    /\ Len(attempts) < MaxExchanges
    /\ pc' = "probe"
    /\ total_commands' = 0
    /\ successful_commands' = 0
    /\ cat' = 1
    /\ category_success' = 0
    /\ pos' = 1
    /\ UNCHANGED <<comm, response_buffer, working_commands, timeout_commands,
                   ret, attempts, rvars, xvars, lvars, mvars, serial>>

\* One pass of the inner loop: the command is counted, then probed; an
\* exception of test_single_command leaves the loops.
ProbeStep ==
    /\ pc = "probe"
    /\ ALL_COMMAND_CATEGORIES[cat].defined
    /\ pos <= CategoryLen(cat)
    /\ total_commands' = total_commands + 1
    /\ \E out \in DeviceOutcomes :
           LET category == ALL_COMMAND_CATEGORIES[cat].name
               cmd == ALL_COMMAND_CATEGORIES[cat].commands[pos]
           IN  test_single_command(cmd, IsTimeoutSensitive(category), out)
    /\ IF pc' = "raised"
       THEN UNCHANGED <<successful_commands, category_success, pos>>
       ELSE /\ successful_commands' =
                   IF ret' THEN successful_commands + 1 ELSE successful_commands
            /\ category_success' =
                   IF ret' THEN category_success + 1 ELSE category_success
            /\ pos' = pos + 1
    /\ UNCHANGED <<cat, rvars, xvars, lvars, mvars, serial>>

\* The end of a category: the next one, or after the last one the return
\* of self.working_commands.
ProbeNextCategory ==
    /\ pc = "probe"
    /\ pos > CategoryLen(cat)
    /\ IF cat < Len(ALL_COMMAND_CATEGORIES)
       THEN /\ cat' = cat + 1
            /\ category_success' = 0
            /\ pos' = 1
            /\ pc' = "probe"
       ELSE /\ pc' = "menu"
            /\ pos' = 0
            /\ UNCHANGED <<cat, category_success>>
    /\ UNCHANGED <<comm, response_buffer, working_commands, timeout_commands,
                   ret, attempts, total_commands, successful_commands, rvars,
                   xvars, lvars, mvars, serial>>

NextProbe ==
    \/ ProbeAllCall
    \/ ProbeStep
    \/ ProbeNextCategory

SpecProbe == Init /\ [][NextProbe]_vars

\* probe_all_commands, line 282: the list the pass returns to main.
ProbeResult == working_commands

\* The full probe as main runs it, option 2 of the menu: probes of the
\* same session (the basic connectivity test, the quick test, a custom
\* command) come before the pass.
NextProbeInSession ==
    \/ TestSingleCommand
    \/ ProbeAllCall
    \/ ProbeStep
    \/ ProbeNextCategory

SpecProbeInSession == Init /\ [][NextProbeInSession]_vars

\* ------------------------------------------------ OlympusDataExtractor

\* How many of the bulk export commands one call of the strategy sends.
MaxExport == 2

\* _try_bulk_export, line 56.
export_bulk_commands ==
    << <<"F", "1", "?">>,
       <<"F", "2", "?">>,
       <<"F", "3", "?">>,
       <<"T", "A", "B", "L", "E", "?">>,
       <<"A", "L", "L", "D", "A", "T", "A", "?">>,
       <<"C", "S", "V", "?">> >>

ExportLen == Min(MaxExport, Len(export_bulk_commands))

\* The methods extract_all_measurements puts in its list, lines 34-39.
retrieval_methods ==
    << "_try_bulk_export", "_try_table_format", "_try_indexed_recall",
       "_try_sequential_access" >>

\* The methods class OlympusDataExtractor defines.
ExtractorMethods ==
    {"__init__", "extract_all_measurements", "_try_bulk_export",
     "_try_indexed_recall", "_parse_bulk_response",
     "_parse_single_measurement", "_parse_measurement_line", "_get_units",
     "export_to_csv"}

\* The names of the list that self has no attribute for: looking one up
\* raises AttributeError while the list is built, outside any try.
MethodsMissing ==
    {retrieval_methods[k] : k \in DOMAIN retrieval_methods} \ ExtractorMethods

\* extract_all_measurements, line 29: file_count = 50.
DefaultFileCount == 50

\* extract_all_measurements, lines 20-29: the count and where it came from.
ExtractFileCount(mem_response) ==
    IF Truthy(mem_response)
    THEN LET tokens == Split(mem_response) IN
         IF Len(tokens) >= 3 /\ ParseInt(tokens[3]).ok
         THEN [from |-> "device", val |-> ParseInt(tokens[3]).val]
         ELSE [from |-> "default", val |-> DefaultFileCount]
    ELSE [from |-> "none", val |-> 0]

\* str.split('\n')
RECURSIVE LinesFrom(_, _, _)
LinesFrom(s, cur, acc) ==
    IF s = <<>> THEN Append(acc, cur)
    ELSE IF Head(s) = "\n"
    THEN LinesFrom(Tail(s), <<>>, Append(acc, cur))
    ELSE LinesFrom(Tail(s), Append(cur, Head(s)), acc)

\* _parse_bulk_response: one measurement per line of the stripped response
\* in which re.findall(r'\d+\.?\d*', line) finds a number, that is, a digit.
MeasurementLines(response) ==
    LET lines == LinesFrom(Strip(response), <<>>, <<>>) IN
    Cardinality({k \in DOMAIN lines :
                    \E j \in DOMAIN lines[k] : IsDigit(lines[k][j])})

\* OlympusDataExtractor.extract_all_measurements: the MEMORY? exchange and
\* the count, then the list of strategies, which cannot be built; the loop
\* of lines 41-50 is never entered.
ExtractAllMeasurements ==
    /\ xpc = "idle"
    /\ \E out \in MemoryOutcomes :
           LET mem_response == send_command(MEMORY_QUERY, out)
               count == ExtractFileCount(mem_response)
           IN  /\ Transport(2000, out)
               /\ x_last' =
                      Attempt("count", MEMORY_QUERY, 2000, mem_response, Met(out))
               /\ x_file_count' = count.val
               /\ x_count_from' = count.from
    /\ MethodsMissing # {}
    /\ x_raised' = TRUE
    /\ x_tried' = <<>>
    /\ UNCHANGED <<xpc, xpos, x_results, x_i, x_n, svars, rvars, pvars, lvars, mvars, serial>>

\* A call of OlympusDataExtractor._try_bulk_export.
TryBulkExportCall ==
    /\ xpc = "idle"
    /\ xpc' = "bulk"
    /\ xpos' = 1
    /\ x_results' = 0
    /\ UNCHANGED <<comm, x_file_count, x_count_from, x_raised, x_tried, x_last,
                   x_i, x_n, svars, rvars, pvars, lvars, mvars, serial>>

\* One pass of the loop of _try_bulk_export: a response of more than 50
\* characters is parsed and returned, each of its measurements asking
\* UNITS? through send_command; after the last command [] is returned.
TryBulkExportStep ==
    /\ xpc = "bulk"
    /\ \E out \in DeviceOutcomes, units_out \in DeviceOutcomes :
           LET cmd == export_bulk_commands[xpos]
               response == send_command_with_timeout(cmd, 10000, out)
               substantial == Truthy(response) /\ Len(response) > 50
               measurements == MeasurementLines(response)
           IN  /\ x_last' = Attempt("export", cmd, 10000, response, Met(out))
               /\ IF substantial /\ measurements > 0
                  THEN Transport(2000, units_out)
                  ELSE Transport(10000, out)
               /\ IF substantial
                  THEN xpc' = "idle" /\ xpos' = 0 /\ x_results' = measurements
                  ELSE IF xpos < ExportLen
                  THEN xpc' = "bulk" /\ xpos' = xpos + 1 /\ x_results' = 0
                  ELSE xpc' = "idle" /\ xpos' = 0 /\ x_results' = 0
    /\ UNCHANGED <<x_file_count, x_count_from, x_raised, x_tried, x_i, x_n,
                   svars, rvars, pvars, lvars, mvars, serial>>

\* _try_indexed_recall, line 70.
working_patterns ==
    << [before |-> <<"I", "D", ":">>, after |-> <<"?">>],
       [before |-> <<"M", "E", "M", ":">>, after |-> <<"?">>],
       [before |-> <<>>, after |-> <<"?">>] >>

\* pattern.format(i=i) with the field {i:03d}
FormatPattern(pattern, n) == pattern.before \o Pad3(n) \o pattern.after

\* _try_indexed_recall, line 77: the response ends the patterns of the index.
IsIndexedHit(response) ==
    Truthy(response) /\ response \notin {ER_UNKNOWN_COMMAND, TIMEOUT, OK}

\* _parse_measurement_line: re.findall(r'\d+\.?\d*', line) finds a number.
HasNumber(line) == \E j \in DOMAIN line : IsDigit(line[j])

\* A call of OlympusDataExtractor._try_indexed_recall(file_count); with a
\* count below 1 the outer loop has no pass and [] is returned at once.
TryIndexedRecallCall ==
    /\ xpc = "idle"
    /\ \E n \in 0..MaxCount :
           /\ x_n' = n
           /\ IF n >= 1
              THEN xpc' = "indexed" /\ x_i' = 1 /\ xpos' = 1
              ELSE xpc' = "idle" /\ x_i' = 0 /\ xpos' = 0
    /\ x_results' = 0
    /\ UNCHANGED <<comm, x_file_count, x_count_from, x_raised, x_tried, x_last,
                   svars, rvars, pvars, lvars, mvars, serial>>

\* One pass of the inner loop of _try_indexed_recall: a response that
\* passes the test of line 77 is parsed, a parsed measurement asks UNITS?
\* through send_command and is appended, and the break leaves the
\* patterns of this index; otherwise the next pattern is tried.
TryIndexedRecallStep ==
    /\ xpc = "indexed"
    /\ \E out \in DeviceOutcomes, units_out \in DeviceOutcomes :
           LET cmd == FormatPattern(working_patterns[xpos], x_i)
               response == send_command_with_timeout(cmd, 2000, out)
               hit == IsIndexedHit(response)
               measured == hit /\ HasNumber(Strip(response))
           IN  /\ x_last' = Attempt("indexed", cmd, 2000, response, Met(out))
               /\ IF measured
                  THEN Transport(2000, units_out)
                  ELSE Transport(2000, out)
               /\ x_results' = IF measured THEN x_results + 1 ELSE x_results
               /\ IF ~hit /\ xpos < Len(working_patterns)
                  THEN xpc' = "indexed" /\ x_i' = x_i /\ xpos' = xpos + 1
                  ELSE IF x_i < x_n
                  THEN xpc' = "indexed" /\ x_i' = x_i + 1 /\ xpos' = 1
                  ELSE xpc' = "idle" /\ x_i' = 0 /\ xpos' = 0
    /\ UNCHANGED <<x_file_count, x_count_from, x_raised, x_tried, x_n, svars,
                   rvars, pvars, lvars, mvars, serial>>

NextExtract ==
    \/ ExtractAllMeasurements
    \/ TryBulkExportCall
    \/ TryBulkExportStep
    \/ TryIndexedRecallCall
    \/ TryIndexedRecallStep

SpecExtract == Init /\ [][NextExtract]_vars

\* ------------------------------------- main, the calls of the transport

\* A caller that goes on while its call of the transport is in progress.
Blocked_never == FALSE

\* send_command_with_timeout is an ordinary call: main stands inside it from
\* the moment the command is handed over until query, write or read
\* returns or raises.
Blocked == in_flight # <<>>

\* disconnect closing the VISA resource and leaving the raw USB device.
disconnect_visa_only ==
    /\ visa_resource' = FALSE
    /\ device' = device
    /\ disconnects' = disconnects + 1
    /\ UNCHANGED visa_timeout

\* DeviceCommunication.disconnect
disconnect ==
    /\ visa_resource' = FALSE
    /\ device' = "None"
    /\ disconnects' = disconnects + 1
    /\ UNCHANGED visa_timeout

\* main option 6: test_single_command(cmd) up to the call of the transport.
CustomCommandSend ==
    /\ pc = "menu"
    /\ ~Blocked
    /\ Len(written) < MaxExchanges
    /\ \E command \in SingleCommands :
           /\ in_flight' = Append(in_flight, command)
           /\ written' = Append(written, command)
    /\ UNCHANGED <<comm, svars, rvars, pvars, xvars, mvars, serial>>

\* The call returns and test_single_command classifies and logs the result.
CustomCommandReturn ==
    /\ pc = "menu"
    /\ in_flight # <<>>
    /\ \E out \in DeviceOutcomes : test_single_command(Head(in_flight), FALSE, out)
    /\ in_flight' = Tail(in_flight)
    /\ UNCHANGED <<pos, written, rvars, pvars, xvars, mvars, serial>>

\* Ctrl-C: KeyboardInterrupt is raised in main wherever it stands, at the
\* menu or inside a call of the transport; no except Exception clause
\* catches it, the call in progress is left without a result, and main
\* prints "Interrupted by user" and disconnects (lines 253-256).
Interrupt ==
    /\ pc = "menu"
    /\ phase # "ended"
    /\ pc' = "interrupted"
    /\ in_flight' = <<>>
    /\ disconnect
    /\ phase' = "ended"
    /\ ended_by' = "interrupt"
    /\ UNCHANGED <<response_buffer, working_commands, timeout_commands, pos,
                   ret, attempts, written, basic_sent, basic_success,
                   report_written, rvars, pvars, xvars, serial>>

NextSession ==
    \/ CustomCommandSend
    \/ CustomCommandReturn
    \/ Interrupt

SpecSession == Init /\ [][NextSession]_vars

\* ------------------------------------------------------------ main, whole

\* Commands of the basic connectivity test that a run goes through.
MaxBasic == 1
\* Probes made from the menu before main ends.
MaxMenu == 1

\* main, line 60.
basic_commands ==
    << <<"V", "E", "R", "?">>,
       <<"I", "D", "?">>,
       <<"U", "N", "I", "T", "S", "?">>,
       <<"R", "A", "N", "G", "E", "?">> >>

BasicLen == Min(MaxBasic, Len(basic_commands))

\* What the operator types at the custom command prompt of option 6.
MenuCommands == {bulk_commands[1]}

\* main after the connection was made and DeviceTesting(comm) was built,
\* at the start of the try block.
MainInit ==
    /\ phase = "basic"
    /\ basic_sent = 0
    /\ basic_success = 0
    /\ disconnects = 0
    /\ report_written = FALSE
    /\ ended_by = "none"

InitMain ==
    Connected /\ TesterInit /\ RecallInit /\ ProbeInit /\ ExtractorInit
        /\ LinkInit /\ MainInit /\ SerialInit

\* One pass of the loop of the basic connectivity test, lines 62-64.
BasicProbe ==
    /\ phase = "basic"
    /\ pc = "menu"
    /\ basic_sent < BasicLen
    /\ \E out \in DeviceOutcomes :
           test_single_command(basic_commands[basic_sent + 1], FALSE, out)
    /\ basic_sent' = basic_sent + 1
    /\ basic_success' = IF ret' THEN basic_success + 1 ELSE basic_success
    /\ UNCHANGED <<pos, phase, disconnects, report_written, ended_by, rvars,
                   pvars, xvars, serial, lvars>>

\* Lines 66-74: with no success main returns, and the finally clause
\* disconnects; otherwise analyze_current_state is called.
BasicDone ==
    /\ phase = "basic"
    /\ pc = "menu"
    /\ basic_sent = BasicLen
    /\ IF basic_success = 0
       THEN /\ phase' = "ended"
            /\ ended_by' = "no_basic_success"
            /\ disconnect
            /\ UNCHANGED <<pc, pos>>
       ELSE /\ phase' = "menu"
            /\ pc' = "analyze"
            /\ pos' = 1
            /\ UNCHANGED <<comm, disconnects, ended_by>>
    /\ UNCHANGED <<response_buffer, working_commands, timeout_commands, ret,
                   attempts, basic_sent, basic_success, report_written, rvars,
                   pvars, xvars, serial, lvars>>

\* A menu choice that probes a command and comes back to the menu
\* (option 6).
MenuProbe ==
    /\ phase = "menu"
    /\ pc = "menu"
    /\ Len(attempts) < BasicLen + StatusLen + MaxMenu
    /\ \E command \in MenuCommands, out \in DeviceOutcomes :
           test_single_command(command, FALSE, out)
    /\ UNCHANGED <<pos, rvars, pvars, xvars, lvars, mvars, serial>>

\* A menu choice whose strategy calls test_single_command with
\* timeout_sensitive=True (option 2 at its fourth category): the TypeError
\* is no KeyboardInterrupt, so it leaves main through the finally clause.
MenuProbeRaises ==
    /\ phase = "menu"
    /\ pc = "menu"
    /\ pc' = "raised"
    /\ phase' = "ended"
    /\ ended_by' = "exception"
    /\ disconnect
    /\ UNCHANGED <<response_buffer, working_commands, timeout_commands, pos,
                   ret, attempts, basic_sent, basic_success, report_written,
                   rvars, pvars, xvars, serial, lvars>>

\* Option 7: the loop is left, save_results writes the report, the summary
\* is printed and the finally clause disconnects.
MenuExit ==
    /\ phase = "menu"
    /\ pc = "menu"
    /\ report_written' = TRUE
    /\ phase' = "ended"
    /\ ended_by' = "exit"
    /\ disconnect
    /\ UNCHANGED <<svars, basic_sent, basic_success, rvars, pvars, xvars, serial, lvars>>

NextMain ==
    \/ BasicProbe
    \/ BasicDone
    \/ AnalyzeStep
    \/ AnalyzeReturn
    \/ MenuProbe
    \/ MenuProbeRaises
    \/ MenuExit
    \/ Interrupt

SpecMain == InitMain /\ [][NextMain]_vars

\* ------------------------------------------------- SERIAL_READ.py

\* Lines the reader thread reads before the run is cut off.
MaxLines == 3

\* What readline() returns: a tagged reading, a bare reading, a line with
\* no number and an empty line.
SerialLines ==
    { <<"T", "H", "K", "=", "3", ".", "5", "2", "\r", "\n">>,
      <<"3", ".", "6", "0", "\r", "\n">>,
      <<"E", "R", "R", "\r", "\n">>,
      <<"\r", "\n">> }

\* The length of the run of digits of s that starts at p.
RECURSIVE DigitRun(_, _)
DigitRun(s, p) ==
    IF p <= Len(s) /\ IsDigit(s[p]) THEN 1 + DigitRun(s, p + 1) ELSE 0

\* The match of [0-9]*\.?[0-9]+ that starts at p: digits, a point and
\* digits when a digit follows the point, the digits alone otherwise.
MatchAt(s, p) ==
    LET n == DigitRun(s, p)
        q == p + n
        m == IF q <= Len(s) /\ s[q] = "." THEN DigitRun(s, q + 1) ELSE 0
    IN  IF m > 0
        THEN [ok |-> TRUE, whole |-> SubSeq(s, p, q - 1),
              frac |-> SubSeq(s, q + 1, q + m)]
        ELSE IF n > 0
        THEN [ok |-> TRUE, whole |-> SubSeq(s, p, q - 1), frac |-> <<>>]
        ELSE [ok |-> FALSE, whole |-> <<>>, frac |-> <<>>]

\* float(text) in thousandths, for a text of up to three decimals.
Thousandths(whole, frac) ==
    LET padded == SubSeq(frac \o <<"0", "0", "0">>, 1, 3)
    IN  1000 * DigitsValue(whole) + DigitsValue(padded)

\* NDTThicknessApp.parse_thickness: re.search takes the leftmost match.
parse_thickness(raw_line) ==
    LET starts == {p \in DOMAIN raw_line : MatchAt(raw_line, p).ok} IN
    IF starts = {} THEN NoValue
    ELSE LET p == CHOOSE x \in starts : \A y \in starts : x <= y
             m == MatchAt(raw_line, p)
         IN  Float(Thousandths(m.whole, m.frac))

\* One pass of the loop of read_serial in the reader thread: a non-empty
\* line is parsed into the local variable value, and for a value that is
\* not None a lambda that reads that variable when it is called is handed
\* to the clock.
ReadSerialLine ==
    /\ reader = "loop"
    /\ running
    /\ reads < MaxLines
    /\ reads' = reads + 1
    /\ \E raw \in SerialLines :
           LET line == Strip(raw) IN
           IF line # <<>>
           THEN /\ value' = parse_thickness(line)
                /\ IF value'.some
                   THEN /\ events' = Append(events, "update")
                        /\ readings' = Append(readings, value')
                   ELSE UNCHANGED <<events, readings>>
           ELSE UNCHANGED <<value, events, readings>>
    /\ UNCHANGED <<running, reader, ui, shown, last_value, data, comm, svars,
                   rvars, pvars, xvars, lvars, mvars>>

\* readline or decode raises: the handler hands the clock a lambda that
\* formats the exception variable e, and the loop is left.
ReadSerialFails ==
    /\ reader = "loop"
    /\ running
    /\ events' = Append(events, "error")
    /\ reader' = "done"
    /\ UNCHANGED <<running, reads, value, ui, shown, readings, last_value, data,
                   comm, svars, rvars, pvars, xvars, lvars, mvars>>

\* The loop test finds self.running false and the thread ends.
ReadSerialEnds ==
    /\ reader = "loop"
    /\ ~running
    /\ reader' = "done"
    /\ UNCHANGED <<running, reads, value, events, ui, shown, readings,
                   last_value, data, comm, svars, rvars, pvars, xvars, lvars,
                   mvars>>

\* The UI thread runs the oldest scheduled callback.  The update lambda
\* calls update_thickness with what the variable value holds now; None
\* cannot be formatted with .3f and raises TypeError.  The error lambda
\* names e, which the end of the except clause has unbound: NameError.
RunCallback ==
    /\ ui = "ok"
    /\ events # <<>>
    /\ events' = Tail(events)
    /\ IF Head(events) = "update"
       THEN /\ shown' = Append(shown, value)
            /\ IF value.some
               THEN last_value' = value /\ ui' = ui
               ELSE ui' = "raised" /\ UNCHANGED last_value
       ELSE ui' = "raised" /\ UNCHANGED <<shown, last_value>>
    /\ UNCHANGED <<running, reader, reads, value, readings, data, comm, svars,
                   rvars, pvars, xvars, lvars, mvars>>

\* NDTThicknessApp.record_reading, the Record button.
record_reading ==
    /\ ui = "ok"
    /\ Len(data) < MaxLines
    /\ data' = IF last_value.some THEN Append(data, last_value.val) ELSE data
    /\ UNCHANGED <<running, reader, reads, value, events, ui, shown, readings,
                   last_value, comm, svars, rvars, pvars, xvars, lvars, mvars>>

\* NDTThicknessApp.on_stop
on_stop ==
    /\ ui = "ok"
    /\ running
    /\ running' = FALSE
    /\ UNCHANGED <<reader, reads, value, events, ui, shown, readings,
                   last_value, data, comm, svars, rvars, pvars, xvars, lvars,
                   mvars>>

NextSerial ==
    \/ ReadSerialLine
    \/ ReadSerialFails
    \/ ReadSerialEnds
    \/ RunCallback
    \/ record_reading
    \/ on_stop

SpecSerial == Init /\ [][NextSerial]_vars

\* ------------------------------------------------------------------ claims

AttemptIndexes(c) == {k \in DOMAIN attempts : attempts[k].cmd = c}

Attempted(c) == AttemptIndexes(c) # {}

\* The most recent attempt at a command that has been attempted.
LastAttempt(c) ==
    attempts[CHOOSE k \in AttemptIndexes(c) : \A j \in AttemptIndexes(c) : j <= k]

InWorking(c) == \E k \in DOMAIN working_commands : working_commands[k][1] = c

InTimeout(c) == \E k \in DOMAIN timeout_commands : timeout_commands[k] = c

AllCommands ==
    SingleCommands
        \cup {bulk_commands[k] : k \in 1..BulkLen}
        \cup {status_commands[k] : k \in 1..StatusLen}

\* An attempt that put its command among the working commands: a Data
\* response, or the timeout sentinel met by analyze_current_state.
EnteredWorking(a) == IsData(a.resp) \/ (a.op = "analyze" /\ a.resp = TIMEOUT)

Logged(a) ==
    CASE a.op = "single" -> Truthy(a.resp) /\ a.resp # TIMEOUT
      [] a.op = "bulk" -> IsData(a.resp)
      [] a.op = "analyze" -> Truthy(a.resp)

RECURSIVE LoggedRecords(_)
LoggedRecords(as) ==
    IF as = <<>> THEN <<>>
    ELSE LET a == Head(as) IN
         (IF Logged(a) THEN << <<a.cmd, a.resp>> >> ELSE <<>>)
             \o LoggedRecords(Tail(as))

C4_NoTimeoutInWorking ==
    \A k \in DOMAIN working_commands : working_commands[k][2] # TIMEOUT

\* C5: every command in working_commands has a record in response_buffer for
\* that command whose outcome is Data.
C5_WorkingHasDataRecord ==
    \A c \in AllCommands :
        InWorking(c) =>
            \E k \in DOMAIN response_buffer :
                response_buffer[k][1] = c /\ IsData(response_buffer[k][2])

\* DeviceTesting.save_results, "Remove duplicates": set(self.working_commands).
unique_commands == {working_commands[k] : k \in DOMAIN working_commands}

\* The last Data response attempted for a command.
DataIndexes(c) == {k \in AttemptIndexes(c) : IsData(attempts[k].resp)}

LastData(c) ==
    attempts[CHOOSE k \in DataIndexes(c) : \A j \in DataIndexes(c) : j <= k].resp

\* C6: the registry and the report's summary hold at most one entry per
\* command, and that entry carries the most recent Data response.
C6_KeyedByCommand ==
    /\ \A p, q \in unique_commands : p[1] = q[1] => p = q
    /\ \A p \in unique_commands : DataIndexes(p[1]) # {} /\ p[2] = LastData(p[1])

LastIsSingle ==
    /\ attempts' # attempts
    /\ attempts'[Len(attempts')].op = "single"

\* C7: in test_single_command a response equal to "ER:UNKNOWN COMMAND", "OK"
\* or "SENT" reports no success and adds nothing to working_commands; any
\* other non-empty, non-timeout response reports success and adds the
\* (command, response) pair to working_commands.
C7_ExactMatchClassification ==
    [][LastIsSingle =>
          LET a == attempts'[Len(attempts')] IN
          /\ a.resp \in {ER_UNKNOWN_COMMAND, OK, SENT} =>
                 ret' = FALSE /\ working_commands' = working_commands
          /\ IsData(a.resp) =>
                 /\ ret' = TRUE
                 /\ working_commands' = Append(working_commands, <<a.cmd, a.resp>>)
      ]_vars

\* test_single_command got a Data response and then "ER:UNKNOWN COMMAND":
\* the first is registered, the second is not and reports no success.
C7_Witness ==
    /\ Len(attempts) = 2
    /\ \A k \in DOMAIN attempts : attempts[k].op = "single"
    /\ IsData(attempts[1].resp)
    /\ attempts[2].resp = ER_UNKNOWN_COMMAND
    /\ ret = FALSE
    /\ working_commands = << <<attempts[1].cmd, attempts[1].resp>> >>

\* C8: a test_single_command whose exchange times out adds the command to
\* timeout_commands, adds nothing to working_commands and returns False.
C8_TimeoutProbe ==
    [][(LastIsSingle /\ attempts'[Len(attempts')].resp = TIMEOUT) =>
          /\ timeout_commands' =
                 Append(timeout_commands, attempts'[Len(attempts')].cmd)
          /\ working_commands' = working_commands
          /\ response_buffer' = response_buffer
          /\ ret' = FALSE
      ]_vars

\* A Data probe (returning True) was followed by a probe that timed out.
C8_Witness ==
    /\ Len(attempts) >= 2
    /\ attempts[Len(attempts)].op = "single"
    /\ attempts[Len(attempts)].resp = TIMEOUT
    /\ IsData(attempts[Len(attempts) - 1].resp)
    /\ attempts[Len(attempts) - 1].op = "single"
    /\ InTimeout(attempts[Len(attempts)].cmd)
    /\ ret = FALSE

\* C9: every exchange that timed out, in whatever strategy, has its command
\* in timeout_commands.
C9_EveryTimeoutRecorded ==
    \A k \in DOMAIN attempts :
        attempts[k].resp = TIMEOUT => InTimeout(attempts[k].cmd)

\* The last exchange was a fetch for the index in hand and returned Data.
FetchGotData ==
    /\ rpc # "menu"
    /\ last.kind = "fetch"
    /\ last.i = i
    /\ IsData(last.resp)

\* C10: the first Data outcome in the select x fetch loop ends all probing
\* for index i: one success is recorded, the selects sent are those up to the
\* current template and the fetches those up to the current command (1 and 3
\* when Data comes on the third fetch after the first select), no composite
\* query is sent, and no exchange for i follows.
C10_TwoStepShortCircuit ==
    /\ [](FetchGotData =>
            /\ rpc = "next"
            /\ found_data
            /\ successes = 1
            /\ sel_sent = sel
            /\ fetch_sent = (sel - 1) * Len(fetch_commands) + fet
            /\ query_sent = 0
            /\ (sel = 1 /\ fet = 3 => sel_sent = 1 /\ fetch_sent = 3))
    /\ [][(found_data /\ rpc # "menu" /\ i' = i) =>
             /\ UNCHANGED <<sel_sent, fetch_sent, query_sent, successes, last>>
             /\ rpc' = "menu"
         ]_vars

\* Index 2 got Data on the third fetch after the first select, after two
\* fetches that were answered "ER:UNKNOWN COMMAND" or timed out.
C10_Witness ==
    /\ FetchGotData
    /\ i = 2
    /\ sel = 1
    /\ fet = 3
    /\ sel_sent = 1
    /\ fetch_sent = 3
    /\ successes = 1

\* The whole two-step search: every fetch after every select.
TwoStepExchanges == Len(select_formats) * Len(fetch_commands)

\* The last exchange was a composite query for the index in hand and
\* returned Data.
QueryGotData ==
    /\ rpc # "menu"
    /\ last.kind = "query"
    /\ last.i = i
    /\ IsData(last.resp)

\* C11: a composite query is sent for index i exactly when the two-step
\* search found no Data for i: none is sent while or after a fetch gave
\* Data, and an index is not left without one when no fetch gave Data; the
\* first composite query that returns Data records the index as found and
\* the composite queries after it are not sent.
C11_FallbackIffNoData ==
    /\ rpc # "menu" /\ query_sent > 0 =>
           /\ ~fetch_data
           /\ sel_sent = Len(select_formats)
           /\ fetch_sent = TwoStepExchanges
    /\ rpc = "next" /\ ~fetch_data => query_sent > 0
    /\ rpc = "next" /\ fetch_data => query_sent = 0
    /\ QueryGotData =>
           /\ rpc = "next"
           /\ found_data
           /\ successes = 1
           /\ query_sent = fet

\* Every select and every fetch for index 1 timed out, the first composite
\* query was answered "ER:UNKNOWN COMMAND" or not at all, the second one
\* returned Data: 2 of the 9 composite queries were sent.
C11_Witness ==
    /\ QueryGotData
    /\ all_timed_out
    /\ i = 1
    /\ fetch_sent = TwoStepExchanges
    /\ query_sent = 2
    /\ query_sent < Len(fetch_commands)
    /\ rpc = "next"

\* The index in hand is finished and neither strategy returned Data for it.
IndexMissed ==
    /\ rpc = "next"
    /\ ~fetch_data
    /\ ~QueryGotData

\* C12: a recall over N > 0 records visits the indexes 1..N in ascending
\* order without leaving one out: while it runs the indexes before i are
\* the finished ones, an index that found no Data in either strategy has
\* had all its exchanges, records no finding and is followed by index i + 1
\* (or, for i = N, by the end of the range), and the loop is left only
\* after index N.
C12_MissNeverAborts ==
    /\ [](rpc # "menu" => i \in 1..file_count /\ Len(done) = i - 1)
    /\ [](IndexMissed =>
            /\ ~found_data
            /\ successes = 0
            /\ sel_sent = Len(select_formats)
            /\ fetch_sent = TwoStepExchanges
            /\ query_sent = Len(fetch_commands))
    /\ [][rpc = "next" =>
             /\ done' = Append(done, ~IndexMissed)
             /\ IF i < file_count
                THEN i' = i + 1 /\ rpc' = "select"
                ELSE i' = i /\ rpc' = "menu"
         ]_vars
    /\ [][i' # i => (rpc = "menu" /\ i' = 1) \/ (rpc = "next" /\ i' = i + 1)]_vars
    /\ [](rpc = "menu" /\ last.kind \in {"fetch", "query"} =>
            Len(done) = file_count /\ i = file_count)

\* A recall over two records ended: index 1 found nothing, index 2 followed
\* and returned Data.
C12_Witness ==
    /\ rpc = "menu"
    /\ file_count = 2
    /\ i = 2
    /\ done = <<FALSE, TRUE>>
    /\ last.i = 2
    /\ IsData(last.resp)

\* MEMORY? responses that give no count: none at all, the sentinels, and
\* texts with fewer than three fields or a third field that is no integer.
Malformed ==
    {<<"4", "0", "9", "6", " ", "5", "1", "2">>,
     MemoryPrefix \o <<"E", "R", "R">>,
     <<"E", "R", "R">>}

NoCount == Malformed \cup {NONE, <<>>, TIMEOUT, ER_UNKNOWN_COMMAND}

\* The response of a device that reports n records, as the caller gets it.
Reports(n) == MemoryPrefix \o Digits(n)

\* Option 8 with a count of 0 is back at the menu and has sent nothing but
\* MEMORY?.
RecallHalted ==
    last.kind = "count" /\ file_count = 0 =>
        /\ rpc = "menu"
        /\ done = <<>>

\* C13: when the record count is 0 - the device reports no records or its
\* count is not obtained or not parsed, and in option 8 the operator gives
\* none either - the recall halts: option 8 is back at the menu with no
\* exchange but MEMORY?, and extract_all_measurements has a file_count of 0,
\* no guessed range, and runs no strategy.
C13_ZeroCountHalts ==
    /\ RecallHalted
    /\ x_last.op = "count" /\ x_last.resp \in NoCount \cup {Reports(0)} =>
           /\ x_file_count = 0
           /\ x_tried = <<>>

\* C14: a MEMORY? response that cannot be parsed raises nothing and leaves
\* the range to the operator: the count in use is the one the operator
\* typed, or 0 with no recall; it is never a default the code picked.
C14_OperatorSuppliedFallback ==
    /\ last.kind = "count" /\ last.resp \in NoCount =>
           /\ count_source.by \in {"operator", "none"}
           /\ count_source.by = "operator" =>
                  file_count = ManualCount(count_source.typed).val
           /\ count_source.by = "none" => file_count = 0
    /\ x_last.op = "count" /\ x_last.resp \in NoCount =>
           /\ x_count_from # "default"
           /\ x_file_count = 0

\* "4096 512 24 7", the response of the example.
Example24 == MemoryPrefix \o <<"2", "4", " ", "7">>

\* C15: the record count is the third whitespace-separated field of the
\* MEMORY? response read as an integer ("4096 512 24 ..." gives 24, a
\* device reporting n gives n); a response with fewer than three fields or
\* with a third field that is no integer gives no count and takes the
\* fallback branch: the operator's prompt in option 8, the except branch
\* in extract_all_measurements.
C15_ThirdFieldIsCount ==
    /\ ParseFileCount(Example24) = 24
    /\ ExtractFileCount(Example24) = [from |-> "device", val |-> 24]
    /\ \A m \in Malformed :
           /\ ParseFileCount(m) = 0
           /\ ExtractFileCount(m).from # "device"
    /\ last.kind = "count" =>
           /\ \A n \in 1..MaxCount :
                  last.resp = Reports(n) =>
                      file_count = n /\ count_source.by = "device"
           /\ last.resp \in Malformed => count_source.by # "device"

\* The device reported two records and option 8 starts its loop over 1..2.
C15_Witness ==
    /\ last.kind = "count"
    /\ last.resp = Reports(2)
    /\ count_source.by = "device"
    /\ file_count = 2
    /\ rpc = "select"
    /\ i = 1

\* C16: the timeout given to one exchange lasts for that exchange only:
\* whatever the exchange met - a reply, a timeout or another error - the
\* VISA link has afterwards the timeout it had before the call, which is
\* the one it was opened with.
C16_TimeoutRestored ==
    /\ [](visa_resource => visa_timeout = VisaTimeout)
    /\ [][visa_timeout' = visa_timeout]_vars

\* Over VISA, the select for index 1 ran with 1000 ms and the fetch after
\* it, with 3000 ms, failed with an error that is no timeout; the link's
\* timeout is the 5000 ms of before.
C16_Witness ==
    /\ visa_resource
    /\ last.kind = "fetch"
    /\ last.timeout = 3000
    /\ last.resp = NONE
    /\ sel_sent = 1
    /\ fetch_sent = 1
    /\ visa_timeout = 5000

\* C17: a probe flagged timeout-sensitive makes one exchange with a budget
\* of 500 ms and returns its classified outcome, a generic probe uses 2000
\* ms, a bulk export attempt 10000 ms: no call of test_single_command ends
\* in an exception, each of its attempts ran with 500 or 2000 ms, and each
\* exchange of _try_bulk_export ran with 10000 ms.
C17_ProbeBudgets ==
    /\ pc # "raised"
    /\ \A k \in DOMAIN attempts :
           attempts[k].op = "single" => attempts[k].timeout \in {500, 2000}
    /\ x_last.op = "export" => x_last.timeout = 10000

\* C19: a transport fault that is no timeout ends the session: the exchange
\* that met it is the last one the tester makes, and the tester is not
\* left where it can go on probing.
C19_FaultIsFatal ==
    \A k \in DOMAIN attempts :
        attempts[k].met = "fault" =>
            /\ k = Len(attempts)
            /\ pc \notin {"menu", "bulk", "analyze", "probe"}

\* C20: extract_all_measurements returns what the first of bulk export,
\* table format, indexed recall and sequential access to find something
\* returned: the call does not raise, and the strategies it ran are the
\* first ones of the list, in order.
C20_FirstFindingStops ==
    /\ ~x_raised
    /\ x_last.op = "count" =>
           /\ x_tried # <<>>
           /\ Len(x_tried) <= Len(retrieval_methods)
           /\ \A k \in DOMAIN x_tried : x_tried[k] = retrieval_methods[k]

\* The commands a probe of the whole catalog sends, in catalog order, each
\* with the budget of its category.
RECURSIVE CatalogFrom(_)
CatalogFrom(c) ==
    IF c > Len(ALL_COMMAND_CATEGORIES) THEN <<>>
    ELSE [k \in 1..CategoryLen(c) |->
             [cmd |-> ALL_COMMAND_CATEGORIES[c].commands[k],
              timeout |->
                  IF ALL_COMMAND_CATEGORIES[c].name \in {"File Operations", "Protocol"}
                  THEN 500 ELSE 2000]]
         \o CatalogFrom(c + 1)

CatalogOrder == CatalogFrom(1)

\* C18: probe_all_commands probes every command of every category once, in
\* catalog order, the commands of "File Operations" and "Protocol" with the
\* budget of 500 ms and the others with 2000 ms: the probe is not left by
\* an exception, every command it counted was attempted, its attempts are
\* the first entries of the catalog with their budgets, and when it
\* returns their number is the number of catalog entries.
C18_ExhaustiveProbe ==
    cat > 0 =>
        /\ pc # "raised"
        /\ Len(attempts) = total_commands
        /\ Len(attempts) <= Len(CatalogOrder)
        /\ \A k \in DOMAIN attempts :
               /\ attempts[k].cmd = CatalogOrder[k].cmd
               /\ attempts[k].timeout = CatalogOrder[k].timeout
        /\ pc = "menu" => total_commands = Len(CatalogOrder)

\* C21: a call of test_single_command makes exactly one exchange for its
\* command, whatever comes back: every step that is such a call adds one
\* attempt to the exchanges made, and nothing is sent a second time.
C21_OneExchangePerCall ==
    [][pc = "menu" /\ pc' \in {"menu", "raised"} =>
           /\ Len(attempts') = Len(attempts) + 1
           /\ SubSeq(attempts', 1, Len(attempts)) = attempts
           /\ attempts'[Len(attempts')].op = "single"
      ]_vars

C23_AbortBetweenProbes ==
    /\ [](pc = "interrupted" =>
            /\ Len(attempts) = Len(written)
            /\ in_flight = <<>>)
    /\ [][pc = "interrupted" => written' = written]_vars

\* s is t with some of its elements left out.
RECURSIVE IsSubsequence(_, _)
IsSubsequence(s, t) ==
    IF s = <<>> THEN TRUE
    ELSE IF t = <<>> THEN FALSE
    ELSE IF Head(s) = Head(t) THEN IsSubsequence(Tail(s), Tail(t))
    ELSE IsSubsequence(s, Tail(t))

\* The new value of a list is the old one with entries added at its end.
Extends(new, old) ==
    /\ Len(new) >= Len(old)
    /\ SubSeq(new, 1, Len(old)) = old

\* C24: the history is append-only and in issuance order: every step
\* leaves the records response_buffer already has where they are, and the
\* records are (command, response) pairs of the attempts made, in the
\* order of those attempts.
C24_HistoryInIssuanceOrder ==
    /\ [][Extends(response_buffer', response_buffer)]_vars
    /\ [](IsSubsequence(response_buffer,
                        [k \in DOMAIN attempts |->
                            <<attempts[k].cmd, attempts[k].resp>>]))

\* "ALL" was attempted before "VER?", each got an answer of its own, and
\* the record of "ALL" stands before the record of "VER?".
C24_Witness ==
    /\ Len(attempts) = 2
    /\ attempts[1].cmd = bulk_commands[1]
    /\ attempts[2].cmd = status_commands[1]
    /\ attempts[1].resp = OK
    /\ attempts[2].resp = Reading2
    /\ response_buffer = << <<bulk_commands[1], OK>>, <<status_commands[1], Reading2>> >>

\* The last element of a non-empty list.
Last(s) == s[Len(s)]

\* This step is a second call of test_single_command in a row for the
\* same command, and the device gave the same non-empty result as the
\* first time.
ProbedAgain ==
    /\ attempts # <<>>
    /\ Len(attempts') = Len(attempts) + 1
    /\ Last(attempts).op = "single"
    /\ Last(attempts').op = "single"
    /\ Last(attempts').cmd = Last(attempts).cmd
    /\ Last(attempts').resp = Last(attempts).resp
    /\ Truthy(Last(attempts).resp)

\* The step appends to the history a record equal to the one the history
\* ends with, which is the record of the first call.
SecondIdenticalRecord ==
    /\ response_buffer # <<>>
    /\ Last(response_buffer) = <<Last(attempts).cmd, Last(attempts).resp>>
    /\ response_buffer' = Append(response_buffer, Last(response_buffer))

CountAttempts(from, to, P(_)) ==
    Cardinality({k \in from..to : k \in DOMAIN attempts /\ P(attempts[k].resp)})

IndexedPass ==
    /\ xpc = "indexed"
    /\ x_last'.op = "indexed"
    /\ xpos < Len(working_patterns)

\* C27: in the indexed recall only a Data result is a finding: after a
\* result that is Sent, Acknowledged, Unrecognized, Timeout or empty the
\* search for the index goes on with the next pattern and no measurement
\* is added.
C27_OnlyDataIsFinding ==
    [][IndexedPass /\ ~IsData(x_last'.resp) =>
          /\ xpc' = "indexed"
          /\ x_i' = x_i
          /\ xpos' = xpos + 1
          /\ x_results' = x_results]_vars

\* The step is the select exchange of strategy 1.
SelectStep == rpc = "select" /\ last'.kind = "select"

\* C28: the response of the select command is ignored.  Whatever it is,
\* the select step records no success and leaves found_data alone, the
\* recall then stands at the first fetch command, and the exchange that
\* follows a select is the fetch of that first command.
C28_SelectResponseIgnored ==
    /\ [][SelectStep =>
             /\ successes' = successes
             /\ found_data' = found_data
             /\ fetch_sent' = fetch_sent]_vars
    /\ [](last.kind = "select" => rpc = "fetch" /\ fet = 1)
    /\ [][last.kind = "select" /\ last' # last =>
             /\ last'.kind = "fetch"
             /\ last'.cmd = fetch_commands[1]
             /\ last'.i = last.i]_vars

\* A select exchange has just returned what would be Data, for the second
\* select format of its index: nothing is counted and the first fetch
\* command is next.
C28_Witness ==
    /\ last.kind = "select"
    /\ IsData(last.resp)
    /\ sel = 2
    /\ rpc = "fetch"
    /\ fet = 1
    /\ successes = 0
    /\ ~found_data

\* C29: the history and the two registries are never reset or rewritten
\* during a session: every operation of DeviceTesting leaves the entries
\* response_buffer, working_commands and timeout_commands already have in
\* place, so each of the three lists only grows.
C29_RegistriesOnlyGrow ==
    [][/\ Extends(response_buffer', response_buffer)
       /\ Extends(working_commands', working_commands)
       /\ Extends(timeout_commands', timeout_commands)]_vars

\* The same command answered with one reading, then with another, then
\* timed out: both readings are still in working_commands, both records in
\* the history, and the timeout is registered.
C29_Witness ==
    /\ Len(attempts) = 3
    /\ attempts[1].cmd = attempts[2].cmd
    /\ attempts[2].cmd = attempts[3].cmd
    /\ working_commands =
           << <<attempts[1].cmd, Strip(Reading1)>>,
              <<attempts[1].cmd, Strip(Reading2)>> >>
    /\ response_buffer = working_commands
    /\ timeout_commands = <<attempts[1].cmd>>

\* C30: the catalog is a total mapping: every category name of
\* ALL_COMMAND_CATEGORIES resolves to an existing command list, so the
\* catalog is there to be read whatever the probe is doing.
C30_CatalogTotal ==
    \A c \in DOMAIN ALL_COMMAND_CATEGORIES :
        pc \in {"menu", "probe", "raised"} => ALL_COMMAND_CATEGORIES[c].defined

\* The step is a call of test_single_command that made its exchange and
\* returned True.
ReturnedTrue ==
    /\ Len(attempts') = Len(attempts) + 1
    /\ Last(attempts').op = "single"
    /\ ret'

\* C31: when test_single_command(cmd) returns True, the last record of
\* response_buffer is (cmd, response) of that very exchange and the same
\* pair is the last entry of working_commands, so response_buffer[-1][1]
\* read after a True return is the response of the command just probed.
C31_LastRecordIsOwnResponse ==
    [][ReturnedTrue =>
          /\ response_buffer' # <<>>
          /\ Last(response_buffer') = <<Last(attempts').cmd, Last(attempts').resp>>
          /\ working_commands' # <<>>
          /\ Last(working_commands') = Last(response_buffer')]_vars

\* A probe of one command returned data, then a probe of another command
\* returned other data and True: the last record is the second one's.
C31_Witness ==
    /\ Len(attempts) = 2
    /\ attempts[1].op = "single"
    /\ attempts[2].op = "single"
    /\ attempts[1].cmd # attempts[2].cmd
    /\ IsData(attempts[1].resp)
    /\ IsData(attempts[2].resp)
    /\ attempts[1].resp # attempts[2].resp
    /\ ret
    /\ Last(response_buffer) = <<attempts[2].cmd, attempts[2].resp>>
    /\ Last(working_commands) = <<attempts[2].cmd, attempts[2].resp>>

\* The step is an exchange of test_single_command over the VISA link for a
\* command without the query marker.
WriteOnlyProbe ==
    /\ visa_resource
    /\ Len(attempts') = Len(attempts) + 1
    /\ Last(attempts').op = "single"
    /\ ~EndsWithQuery(Last(attempts').cmd)

\* C32: over the VISA link a command that does not end in '?' is written
\* and never read: the result of its exchange is "OK", the timeout
\* sentinel or None, never Data, and test_single_command returns False
\* for it and adds nothing to working_commands.
C32_WriteOnlyNeverData ==
    /\ [](visa_resource =>
            \A k \in DOMAIN attempts :
                ~EndsWithQuery(attempts[k].cmd) =>
                    /\ attempts[k].resp \in {OK, TIMEOUT, NONE}
                    /\ ~IsData(attempts[k].resp))
    /\ [][WriteOnlyProbe =>
             /\ ~ret'
             /\ working_commands' = working_commands]_vars

\* "ALL" went over the VISA link, the device was there to answer, and the
\* probe has the acknowledgment in the history and nothing in
\* working_commands.
C32_Witness ==
    /\ visa_resource
    /\ Len(attempts) = 1
    /\ attempts[1].op = "single"
    /\ attempts[1].cmd = bulk_commands[1]
    /\ attempts[1].met = "reply"
    /\ attempts[1].resp = OK
    /\ ~ret
    /\ response_buffer = << <<bulk_commands[1], OK>> >>
    /\ working_commands = <<>>

\* C33: the indexed recall terminates.  For each index it sends at most 4
\* selects, 4 x 9 fetches and 9 composite queries, 49 exchanges in all;
\* the index goes from 1 to the record count in steps of one, so no index
\* is visited twice; and a recall that has started comes back to the menu.
C33_RecallTerminates ==
    /\ [](rpc # "menu" =>
            /\ sel_sent <= 4
            /\ fetch_sent <= 4 * 9
            /\ query_sent <= 9
            /\ sel_sent + fetch_sent + query_sent <= 49
            /\ i \in 1..file_count
            /\ Len(done) = i - 1)
    /\ [][i' # i => i' = i + 1 \/ (rpc = "menu" /\ i' = 1)]_vars
    /\ (rpc # "menu" ~> rpc = "menu")

\* The second index has used every command of both strategies and found
\* nothing: 4 selects, 36 fetches and 9 composite queries were sent for it.
C33_Witness ==
    /\ rpc = "next"
    /\ i = 2
    /\ ~found_data
    /\ sel_sent = 4
    /\ fetch_sent = 36
    /\ query_sent = 9
    /\ done # <<>>

\* C34: the list the full probe returns holds the commands that succeeded
\* during that pass and nothing else, so at every point of the pass the
\* list that stands to be returned is as long as the pass's success count;
\* entries of earlier operations of the session are not in it.
C34_ResultIsThisPass ==
    pc = "probe" => Len(ProbeResult) = successful_commands

\* C35: every way main ends after the connection was made disconnects
\* exactly once.  main has ended exactly when disconnect has run, it never
\* runs twice, after it the object holds neither the VISA resource nor the
\* USB device and send_command returns None for any command without
\* touching the link, and the report is written on the menu exit only.
C35_DisconnectOnEveryExit ==
    /\ disconnects <= 1
    /\ phase = "ended" <=> disconnects = 1
    /\ phase = "ended" <=> ended_by # "none"
    /\ phase = "ended" =>
           /\ ~visa_resource
           /\ device = "None"
           /\ \A command \in SingleCommands, out \in DeviceOutcomes :
                  /\ send_command(command, out) = NONE
                  /\ Met(out) = "nothing"
    /\ report_written <=> ended_by = "exit"

\* main ended with the exception of a probe after a successful basic
\* test: it has disconnected once and written no report.
C35_Witness ==
    /\ phase = "ended"
    /\ ended_by = "exception"
    /\ basic_success > 0
    /\ disconnects = 1
    /\ ~visa_resource
    /\ device = "None"
    /\ ~report_written

\* C36: each scheduled display update shows the value parsed from the line
\* that scheduled it: the values passed to update_thickness are the parsed
\* readings in order, none lost and none twice, the updates still
\* waiting accounting for the rest, and every recorded reading is a value
\* parsed from a line of the device.
C36_DisplayFollowsReadings ==
    /\ Len(shown) <= Len(readings)
    /\ shown = SubSeq(readings, 1, Len(shown))
    /\ \A k \in DOMAIN data :
           \E j \in DOMAIN readings : readings[j].val = data[k]

====
